---- MODULE Spec2Model ----
(***************************************************************************)
(* Model of the knowledge-base orchestrator (knowledge/brain.py) and the   *)
(* collaborators it composes: the SQLite store, the prompt manager, the    *)
(* model gateway, the URL fetcher and the conversation log.                *)
(*                                                                         *)
(* A Python str is a TLA+ string; its characters are read with SubSeq, so  *)
(* lower(), substring tests, slicing, the URL pattern and the full-text    *)
(* tokenizer are computed rather than assumed.  One letter outside ASCII    *)
(* stands for all of them.                                                 *)
(* A Python list is a sequence.  Optional[X] is a sequence of at most one  *)
(* X: <<>> is None and <<x>> is the value x.                               *)
(***************************************************************************)
EXTENDS Integers, Sequences, FiniteSets, TLC

VARIABLES
  items,             \* rows of the items table, in rowid order
  items_fts,         \* rows of the items_fts index, in rowid order
  overview,          \* rows of the overview table: <<>> or <<text>>
  pm,                \* KnowledgeBrain.pm: <<>> (None) or <<prompt manager>>
  conversation_log,  \* TRUE iff KnowledgeBrain.conversation_log is not None
  call,              \* the call in flight or just completed, and its outcome
  user_data,         \* the chat session's pending feature proposal: <<>> or <<gap>>
  repo,              \* the git repository of the user prompt directory
  overview_md,       \* the overview mirror: [path, file], file <<>> or <<text>>
  tasks              \* the capture coroutines in flight at once, by task

vars ==
  <<items, items_fts, overview, pm, conversation_log, call, user_data, repo,
    overview_md, tasks>>

-----------------------------------------------------------------------------
(* Characters, strings and lists *)

LowerAlpha == "abcdefghijklmnopqrstuvwxyz"
UpperAlpha == "ABCDEFGHIJKLMNOPQRSTUVWXYZ"
Digits == "0123456789"
Whitespace == {" ", "\n", "\t", "\r"}

None == <<>>
Some(x) == <<x>>

Min(a, b) == IF a <= b THEN a ELSE b

Range(s) == {s[i] : i \in 1..Len(s)}

\* s[i-1] in Python: the i-th character, as a string of length one
Char(s, i) == SubSeq(s, i, i)

\* Python's `sub in s` on strings
Contains(s, sub) ==
  \E i \in 1..(Len(s) - Len(sub) + 1) : SubSeq(s, i, i + Len(sub) - 1) = sub

\* the characters of a string, as a set
Chars(s) == {Char(s, i) : i \in 1..Len(s)}

\* str.lower() of one character, tabulated for the letters that have one
LowerOf ==
  [c \in Chars(UpperAlpha) |->
     Char(LowerAlpha, CHOOSE i \in 1..Len(UpperAlpha) : Char(UpperAlpha, i) = c)]

lowerChar(c) == IF c \in DOMAIN LowerOf THEN LowerOf[c] ELSE c

\* str.lower()
RECURSIVE lower(_)
lower(s) ==
  IF Len(s) = 0 THEN ""
  ELSE IF Len(s) = 1 THEN lowerChar(s)
  ELSE lower(SubSeq(s, 1, Len(s) \div 2)) \o lower(SubSeq(s, Len(s) \div 2 + 1, Len(s)))

\* the letters and digits: the token characters of the FTS5 tokenizer
Alnum == Chars(LowerAlpha) \cup Chars(UpperAlpha) \cup Chars(Digits)

IsAlnum(c) == c \in Alnum

\* a letter outside ASCII, standing for all of them
NonAscii == "π"

\* the characters of a token of the FTS5 unicode61 tokenizer, which are also
\* the characters of a bareword of an FTS5 query: letters, digits and every
\* character outside ASCII
TokenChars == Alnum \cup Chars(NonAscii)

\* Python's s[:n] on a str or a list
Slice(s, n) == SubSeq(s, 1, Min(n, Len(s)))

\* Python's sep.join(parts)
RECURSIVE Join(_, _)
Join(parts, sep) ==
  IF parts = <<>> THEN ""
  ELSE IF Len(parts) = 1 THEN parts[1]
  ELSE parts[1] \o sep \o Join(Tail(parts), sep)

\* Python truthiness of a str or a list
Truthy(s) == Len(s) > 0

\* Python truthiness of an Optional[str]
TruthyOpt(o) == o # None /\ Truthy(o[1])

\* the maximal runs, in order, of the characters of s that are in the class
\* cls (inside = TRUE) or outside it (inside = FALSE)
Runs(s, cls, inside) ==
  LET P(c) == (c \in cls) = inside
      starts == {i \in 1..Len(s) : P(Char(s, i)) /\ (i = 1 \/ ~P(Char(s, i - 1)))}
      EndOf(i) == CHOOSE j \in i..Len(s) :
                    /\ j = Len(s) \/ ~P(Char(s, j + 1))
                    /\ \A k \in i..j : P(Char(s, k))
      Nth(k) == CHOOSE i \in starts : Cardinality({j \in starts : j < i}) = k - 1
  IN [k \in 1..Cardinality(starts) |-> SubSeq(s, Nth(k), EndOf(Nth(k)))]

-----------------------------------------------------------------------------
(* knowledge/models.py: ItemType *)

NOTE == "note"
IDEA == "idea"
TASK == "task"
REFERENCE == "reference"
LINK == "link"
JOURNAL == "journal"

\* the members of the enum, in definition order
ItemType == <<NOTE, IDEA, TASK, REFERENCE, LINK, JOURNAL>>

-----------------------------------------------------------------------------
(* knowledge/fetcher.py: URL detection *)

\* the characters the URL pattern's class [^\s<>"')\]] excludes
UrlStop == Whitespace \cup {"<", ">", "\"", "'", ")", "]"}

\* length of the match of https?:// at position i (re.IGNORECASE), 0 if none
SchemeLen(s, i) ==
  IF lower(SubSeq(s, i, Min(i + 3, Len(s)))) # "http" THEN 0
  ELSE IF lower(SubSeq(s, i + 4, Min(i + 7, Len(s)))) = "s://" THEN 8
  ELSE IF SubSeq(s, i + 4, Min(i + 6, Len(s))) = "://" THEN 7
  ELSE 0

\* last index of the greedy run of allowed characters starting at j (j-1 if empty)
RECURSIVE RunEnd(_, _)
RunEnd(s, j) ==
  IF j > Len(s) \/ Char(s, j) \in UrlStop THEN j - 1 ELSE RunEnd(s, j + 1)

\* URL_PATTERN.findall(text) from position i: non-overlapping, left to right
RECURSIVE UrlScan(_, _)
UrlScan(s, i) ==
  IF i > Len(s) THEN <<>>
  ELSE LET n == SchemeLen(s, i)
           e == RunEnd(s, i + n)
       IN IF n > 0 /\ e >= i + n
          THEN <<SubSeq(s, i, e)>> \o UrlScan(s, e + 1)
          ELSE UrlScan(s, i + 1)

\* extract_urls(text)
extract_urls(text) == UrlScan(text, 1)

\* a variant that takes the last URL of the message instead of the first
FirstUrl_Last(urls) == IF urls # <<>> THEN Some(urls[Len(urls)]) ELSE None

\* the value `urls[0] if urls else None`
FirstUrl(urls) == IF urls # <<>> THEN Some(urls[1]) ELSE None

-----------------------------------------------------------------------------
(* JSON text.  The text of a model reply that is meant to be JSON is a      *)
(* sequence of lines; a line is a code fence, blank, prose, or the          *)
(* serialisation of one JSON value.  A JSON object is a function from its   *)
(* keys; null is None, a JSON string in a nullable field is Some(text),     *)
(* and a JSON scalar whose type matters is held as its literal.             *)

Fence == [k |-> "fence"]
Blank == [k |-> "blank"]
Prose == [k |-> "prose"]

\* json.dumps(v)
json_dumps(v) == [k |-> "json", v |-> v]

Obj(f) == [t |-> "object", o |-> f]
Arr == [t |-> "array"]

\* dict.get(k, default)
Get(o, k, default) == IF k \in DOMAIN o THEN o[k] ELSE default

\* str.strip() on a text held as lines
Strip(lines) ==
  LET solid == {i \in 1..Len(lines) : lines[i].k # "blank"}
  IN IF solid = {} THEN <<>>
     ELSE SubSeq(lines, CHOOSE i \in solid : \A j \in solid : i <= j,
                        CHOOSE i \in solid : \A j \in solid : j <= i)

\* json.loads(text): [exc, val]; the text must hold exactly one JSON value
json_loads(lines) ==
  LET body == Strip(lines)
  IN IF Len(body) = 1 /\ body[1].k = "json"
     THEN [exc |-> "", val |-> Some(body[1].v)]
     ELSE [exc |-> "JSONDecodeError", val |-> None]

-----------------------------------------------------------------------------
(* knowledge/models.py: AnalysisResult *)

\* the `while end > 0 and not lines[end].strip().startswith("```")` loop,
\* on 1-based indices
RECURSIVE FenceEnd(_, _)
FenceEnd(lines, e) ==
  IF e > 1 /\ lines[e].k # "fence" THEN FenceEnd(lines, e - 1) ELSE e

RequiredFields == <<"item_type", "tags", "summary", "response">>

\* AnalysisResult.from_llm_json(raw): [exc, val]
from_llm_json(raw) ==
  LET stripped == Strip(raw)
      cleaned == IF stripped # <<>> /\ stripped[1].k = "fence"
                 THEN SubSeq(stripped, 2, FenceEnd(stripped, Len(stripped)) - 1)
                 ELSE stripped
      parsed == json_loads(cleaned)
  IN IF parsed.exc # "" THEN [exc |-> "ValueError", val |-> None]
     ELSE LET data == parsed.val[1]
          IN IF data.t # "object" THEN [exc |-> "ValueError", val |-> None]
             ELSE IF \E i \in 1..Len(RequiredFields) : RequiredFields[i] \notin DOMAIN data.o
             THEN [exc |-> "ValueError", val |-> None]
             ELSE IF data.o["item_type"] \notin Range(ItemType)
             THEN [exc |-> "ValueError", val |-> None]
             ELSE [exc |-> "",
                   val |-> Some([item_type |-> data.o["item_type"],
                                 tags |-> data.o["tags"],
                                 summary |-> data.o["summary"],
                                 response |-> data.o["response"],
                                 overview_update |-> Get(data.o, "overview_update", None)])]

\* Python attribute lookup on a dataclass instance
HasAttr(obj, name) == name \in DOMAIN obj

-----------------------------------------------------------------------------
(* knowledge/prompt_manager.py.  A template is a sequence of segments:     *)
(* literal text or a $placeholder.  A directory is a function from the     *)
(* names of the templates it holds.  A prompt manager is a record          *)
(* [base_dir, user_dir] with user_dir an Optional directory.               *)

Lit(text) == [k |-> "lit", text |-> text]
Var(name) == [k |-> "var", text |-> name]

\* string.Template(text).safe_substitute(**kwargs): a placeholder with no
\* value is left in place
safe_substitute(template, kwargs) ==
  Join([i \in 1..Len(template) |->
          IF template[i].k = "lit" THEN template[i].text
          ELSE IF template[i].text \in DOMAIN kwargs THEN kwargs[template[i].text]
          ELSE "$" \o template[i].text],
       "")

\* a variant that reads the base tier first
_read_template_BaseFirst(m, name) ==
  IF name \in DOMAIN m.base_dir
  THEN [exc |-> "", val |-> Some(m.base_dir[name])]
  ELSE IF m.user_dir # None /\ name \in DOMAIN m.user_dir[1]
  THEN [exc |-> "", val |-> Some(m.user_dir[1][name])]
  ELSE [exc |-> "FileNotFoundError", val |-> None]

\* a variant that reads a missing template as an empty one
_read_template_Lenient(m, name) ==
  IF m.user_dir # None /\ name \in DOMAIN m.user_dir[1]
  THEN [exc |-> "", val |-> Some(m.user_dir[1][name])]
  ELSE IF name \notin DOMAIN m.base_dir
  THEN [exc |-> "", val |-> Some(<<>>)]
  ELSE [exc |-> "", val |-> Some(m.base_dir[name])]

\* PromptManager._read_template(name): [exc, val]
_read_template(m, name) ==
  IF m.user_dir # None /\ name \in DOMAIN m.user_dir[1]
  THEN [exc |-> "", val |-> Some(m.user_dir[1][name])]
  ELSE IF name \notin DOMAIN m.base_dir
  THEN [exc |-> "FileNotFoundError", val |-> None]
  ELSE [exc |-> "", val |-> Some(m.base_dir[name])]

\* PromptManager.load(name, **kwargs): [exc, val]
load(m, name, kwargs) ==
  LET t == _read_template(m, name)
  IN IF t.exc # "" THEN t
     ELSE [exc |-> "", val |-> Some(safe_substitute(t.val[1], kwargs))]

-----------------------------------------------------------------------------
(* knowledge/prompts.py, the builders that take the prompt manager: each    *)
(* renders its named template through PromptManager.load, so a template     *)
(* missing from both tiers raises.                                          *)

\* ", ".join(t.value for t in ItemType)
_ITEM_TYPES == Join(ItemType, ", ")

\* the value `s or placeholder`
OrElse(s, placeholder) == IF Truthy(s) THEN s ELSE placeholder

capture_system_prompt(m, ov) ==
  load(m, "capture",
       ("overview" :> OrElse(ov, "(No overview yet.)")) @@ ("item_types" :> _ITEM_TYPES))

query_system_prompt(m, ov, context_items) ==
  load(m, "query",
       ("overview" :> OrElse(ov, "(No overview yet.)"))
         @@ ("context_items" :> OrElse(context_items, "(No matching items found.)")))

overview_refresh_prompt(m, ov, recent_items) ==
  load(m, "overview_refresh",
       ("overview" :> OrElse(ov, "(No overview yet.)"))
         @@ ("recent_items" :> OrElse(recent_items, "(No items stored yet.)")))

capability_gap_prompt(m) == load(m, "capability_gap", <<>>)

\* fetcher.fetch_url_content(url) when the request and the extraction end as
\* response: every exception is caught and reported as None
fetch_url_content(response) ==
  IF response.error # "" THEN None ELSE Some(response.text)

-----------------------------------------------------------------------------
(* knowledge/store.py: SQLiteStore.  A row of the items table is a record  *)
(* [id, content, item_type, tags, summary, source_url, url_content,        *)
(* created_at] with tags held as JSON text and created_at as ISO text.     *)
(* A row of items_fts is [rowid, tokens].  Timestamps are ticks of the     *)
(* wall clock.                                                             *)

\* str(n) for a natural number
RECURSIVE Decimal(_)
Decimal(n) ==
  IF n < 10 THEN Char(Digits, n + 1) ELSE Decimal(n \div 10) \o Char(Digits, (n % 10) + 1)

isoformat(t) == [iso |-> t]
fromisoformat(text) == text.iso

\* datetime.now(timezone.utc) as read when an item is constructed: the wall
\* clock has advanced since the newest stored row was stamped
utcnow(rows) ==
  IF rows = <<>> THEN 1
  ELSE 1 + fromisoformat(rows[CHOOSE i \in 1..Len(rows) :
                                \A j \in 1..Len(rows) :
                                  fromisoformat(rows[j].created_at)
                                    <= fromisoformat(rows[i].created_at)].created_at)

\* the KnowledgeItem dataclass constructor
KnowledgeItem(content, item_type, tags, summary, source_url, url_content, created_at) ==
  [content |-> content, item_type |-> item_type, tags |-> tags,
   summary |-> summary, source_url |-> source_url, url_content |-> url_content,
   created_at |-> created_at, item_id |-> None]

\* the FTS5 unicode61 tokenizer: maximal runs of letters and digits, case-folded
Tokens(s) ==
  LET runs == Runs(s, TokenChars, TRUE) IN [k \in 1..Len(runs) |-> lower(runs[k])]

RECURSIVE Flatten(_)
Flatten(ss) == IF ss = <<>> THEN <<>> ELSE ss[1] \o Flatten(Tail(ss))

\* the text json.dumps writes for a string: ensure_ascii is on by default, so
\* a character outside ASCII is written as a \uXXXX escape
RECURSIVE ensure_ascii(_)
ensure_ascii(s) ==
  IF s = "" THEN ""
  ELSE (IF Char(s, 1) = NonAscii THEN "\\u03c0" ELSE Char(s, 1))
         \o ensure_ascii(SubSeq(s, 2, Len(s)))

\* the trigger items_ai: the index row of a new items row (content, summary,
\* tags).  The tags column holds the JSON text, so the tokenizer reads each
\* tag as json.dumps wrote it.
items_ai(fts, row) ==
  Append(fts, [rowid |-> row.id,
               tokens |-> Tokens(row.content) \o Tokens(row.summary)
                            \o Flatten([i \in 1..Len(row.tags.v) |->
                                           Tokens(ensure_ascii(row.tags.v[i]))])])

\* a variant that writes the new row over the newest one (INSERT OR REPLACE
\* under the largest id in use)
save_item_Replace(db, item) ==
  LET row == [id |-> IF db.items = <<>> THEN 1 ELSE db.items[Len(db.items)].id,
              content |-> item.content,
              item_type |-> item.item_type,
              tags |-> json_dumps(item.tags),
              summary |-> item.summary,
              source_url |-> item.source_url,
              url_content |-> item.url_content,
              created_at |-> isoformat(item.created_at)]
      n == Len(db.items)
  IN IF n = 0
     THEN [db EXCEPT !.items = Append(@, row), !.fts = items_ai(@, row)]
     ELSE [db EXCEPT !.items = Append(SubSeq(@, 1, n - 1), row),
                     !.fts = items_ai(SubSeq(@, 1, n - 1), row)]

\* a variant that gives a new row the largest id in use
save_item_ReuseId(db, item) ==
  LET row == [id |-> IF db.items = <<>> THEN 1 ELSE db.items[Len(db.items)].id,
              content |-> item.content,
              item_type |-> item.item_type,
              tags |-> json_dumps(item.tags),
              summary |-> item.summary,
              source_url |-> item.source_url,
              url_content |-> item.url_content,
              created_at |-> isoformat(item.created_at)]
  IN [db EXCEPT !.items = Append(@, row), !.fts = items_ai(@, row)]

\* SQLiteStore.save_item(item): the store [items, fts] after the INSERT, the
\* trigger and the commit.  INTEGER PRIMARY KEY AUTOINCREMENT gives one more
\* than the largest id ever used (no row is ever deleted).
save_item(db, item) ==
  LET row == [id |-> IF db.items = <<>> THEN 1 ELSE db.items[Len(db.items)].id + 1,
              content |-> item.content,
              item_type |-> item.item_type,
              tags |-> json_dumps(item.tags),
              summary |-> item.summary,
              source_url |-> item.source_url,
              url_content |-> item.url_content,
              created_at |-> isoformat(item.created_at)]
  IN [db EXCEPT !.items = Append(@, row), !.fts = items_ai(@, row)]

\* SQLiteStore._row_to_item(row)
_row_to_item(row) ==
  [content |-> row.content,
   item_type |-> ItemType[CHOOSE i \in 1..Len(ItemType) : ItemType[i] = row.item_type],
   tags |-> row.tags.v,
   summary |-> row.summary,
   source_url |-> row.source_url,
   url_content |-> row.url_content,
   created_at |-> fromisoformat(row.created_at),
   item_id |-> Some(row.id)]

\* SQLiteStore.get_item(item_id): None when no row has the id
get_item(rows, item_id) ==
  IF \E i \in 1..Len(rows) : rows[i].id = item_id
  THEN Some(_row_to_item(rows[CHOOSE i \in 1..Len(rows) : rows[i].id = item_id]))
  ELSE None

\* SQLiteStore.count(): SELECT COUNT(*) FROM items
count(rows) == Len(rows)

\* SQLiteStore.get_overview()
get_overview(ov) == IF ov = None THEN "" ELSE ov[1]

\* a variant that inserts the row only when the table is empty
save_overview_KeepFirst(ov, text) == IF ov = None THEN Some(text) ELSE ov

\* SQLiteStore.save_overview(text), the table: INSERT OR REPLACE of the single
\* row, committed before the mirror file is written
save_overview(ov, text) == Some(text)

\* the text _export_overview_md writes; now is the wall clock
OverviewMarkdown(text, now) ==
  "# Knowledge Base Overview\n\n_Last updated: " \o Decimal(now) \o " UTC_\n\n"
    \o text \o "\n"

\* a variant without the failure boundary around the file write
_export_overview_md_Unguarded(md, text, now, mdUp) ==
  IF ~md.path THEN [exc |-> "", md |-> md]
  ELSE IF mdUp THEN [exc |-> "", md |-> [md EXCEPT !.file = Some(OverviewMarkdown(text, now))]]
  ELSE [exc |-> "OSError", md |-> md]

\* SQLiteStore._export_overview_md(text): [exc, md].  md is [path, file]: whether
\* overview_md_path is set, and the file's text.  mdUp tells whether the
\* directory and the file can be written; a failure is logged and swallowed,
\* and the file stays as it was.
_export_overview_md(md, text, now, mdUp) ==
  IF ~md.path THEN [exc |-> "", md |-> md]
  ELSE IF mdUp THEN [exc |-> "", md |-> [md EXCEPT !.file = Some(OverviewMarkdown(text, now))]]
  ELSE [exc |-> "", md |-> md]

\* ascending sort of records [key, tie, val] by key, then by tie
RECURSIVE SortByKey(_)
SortByKey(s) ==
  IF s = <<>> THEN <<>>
  ELSE LET m == CHOOSE i \in 1..Len(s) :
                  \A j \in 1..Len(s) :
                    \/ s[i].key < s[j].key
                    \/ s[i].key = s[j].key /\ s[i].tie <= s[j].tie
       IN <<s[m]>> \o SortByKey(SubSeq(s, 1, m - 1) \o SubSeq(s, m + 1, Len(s)))

IsNonBlank(c) == c \notin Whitespace

\* items_fts MATCH ? with the raw query text.  Barewords separated by blanks
\* are an implicit AND of terms; a character outside the FTS5 query grammar
\* (such as ? or ') or an empty expression is a syntax error, which sqlite3
\* raises as OperationalError.  The boolean operators (AND, OR, NOT, NEAR in
\* upper case), phrases, prefix and column filters of the grammar are not
\* modelled; no query of the model uses them.
FtsSyntaxError(query) ==
  \/ \A i \in 1..Len(query) : ~IsNonBlank(Char(query, i))
  \/ \E i \in 1..Len(query) : Char(query, i) \notin TokenChars /\ IsNonBlank(Char(query, i))

\* the terms of a MATCH expression, case-folded as the tokenizer folds them
FtsTerms(query) ==
  LET w == Runs(query, Whitespace, FALSE) IN {lower(w[i]) : i \in 1..Len(w)}

\* bm25(items_fts), lower is better.  The score is abstracted to the negated
\* number of occurrences of the query's terms in the row's indexed columns.
bm25(tokens, terms) ==
  0 - Cardinality({i \in 1..Len(tokens) : tokens[i] \in terms})

\* SQLiteStore.search(query, limit)
search(db, query, limit) ==
  IF FtsSyntaxError(query) THEN <<>>
  ELSE LET terms == FtsTerms(query)
           hits == {i \in 1..Len(db.fts) :
                      /\ terms \subseteq Range(db.fts[i].tokens)
                      /\ \E j \in 1..Len(db.items) : db.items[j].id = db.fts[i].rowid}
           Row(i) == db.items[CHOOSE j \in 1..Len(db.items) : db.items[j].id = db.fts[i].rowid]
           keyed == [i \in hits |->
                       [key |-> bm25(db.fts[i].tokens, terms), tie |-> i, val |-> Row(i)]]
           Nth(k) == CHOOSE i \in hits : Cardinality({j \in hits : j < i}) = k - 1
           ranked == Slice(SortByKey([k \in 1..Cardinality(hits) |-> keyed[Nth(k)]]), limit)
       IN [i \in 1..Len(ranked) |->
             [item |-> _row_to_item(ranked[i].val),
              rank |-> ranked[i].key,
              snippet |-> IF Truthy(ranked[i].val.summary)
                          THEN ranked[i].val.summary
                          ELSE Slice(ranked[i].val.content, 100)]]

\* a variant that lists rows of one created_at latest insertion first
recent_TiesReversed(rows, limit) ==
  LET keyed == [i \in 1..Len(rows) |->
                  [key |-> 0 - fromisoformat(rows[i].created_at),
                   tie |-> 0 - rows[i].id, val |-> rows[i]]]
      sorted == Slice(SortByKey(keyed), limit)
  IN [i \in 1..Len(sorted) |-> _row_to_item(sorted[i].val)]

\* SQLiteStore.recent(limit): ORDER BY created_at DESC LIMIT ?.  SQL leaves the
\* order of rows with one created_at open; SQLite scans the table in rowid
\* order into a sorter that keeps that order among equal keys.
recent(rows, limit) ==
  LET keyed == [i \in 1..Len(rows) |->
                  [key |-> 0 - fromisoformat(rows[i].created_at),
                   tie |-> rows[i].id, val |-> rows[i]]]
      sorted == Slice(SortByKey(keyed), limit)
  IN [i \in 1..Len(sorted) |-> _row_to_item(sorted[i].val)]

-----------------------------------------------------------------------------
(* knowledge/brain.py: KnowledgeBrain *)

_INSUFFICIENT_CAPABILITY_SIGNALS ==
  << "i don't have", "i do not have", "no information", "not stored",
     "can't find", "cannot find", "no data", "not tracked", "don't track",
     "do not track", "no record", "haven't stored", "have not stored",
     "isn't tracked", "is not tracked" >>

FALLBACK_REPLY == "Saved to knowledge base."
QUERY_APOLOGY == "I couldn't process that query right now."

SearchLimit == 10
RecentLimit == 50
PlainResultsLimit == 5
PlainContentChars == 80
ContextContentChars == 100

(* A call runs on a world [items, fts, overview, effects, logged]: the      *)
(* tables, the calls made on the collaborators so far (in order), and the   *)
(* records appended to the conversation log.  An operation yields           *)
(* [exc, reply, flag, gap, w]: exc is "" when it returns and the name of    *)
(* the exception when it raises.                                            *)

Eff(w, e) == [w EXCEPT !.effects = Append(@, e)]

Return(reply, flag, gap, w) ==
  [exc |-> "", reply |-> reply, flag |-> flag, gap |-> gap, w |-> w]

Raise(exc, w) ==
  [exc |-> exc, reply |-> "", flag |-> FALSE, gap |-> None, w |-> w]

\* self.store.save_item(item); sqlite3 raises when the database cannot be written
StoreSaveItem(w, item, storeUp) ==
  IF storeUp
  THEN [exc |-> "", w |-> Eff(save_item(w, item), "save_item")]
  ELSE [exc |-> "OperationalError", w |-> Eff(w, "save_item:raised")]

\* self.store.save_overview(text); the mirror file is writable in these calls
StoreSaveOverview(w, text, storeUp) ==
  IF storeUp
  THEN LET md == _export_overview_md(w.md, text, utcnow(w.items), TRUE)
       IN [exc |-> md.exc,
           w |-> Eff([w EXCEPT !.overview = save_overview(@, text), !.md = md.md],
                     "save_overview")]
  ELSE [exc |-> "OperationalError", w |-> Eff(w, "save_overview:raised")]

\* self.llm.analyze(message, system=system): [exc, val, w]
Analyze(llm, w) ==
  IF llm.raises THEN [exc |-> "APIError", val |-> None, w |-> Eff(w, "analyze:raised")]
  ELSE [exc |-> "", val |-> Some(llm.text), w |-> Eff(w, "analyze")]

\* the ConversationRecord built by _log_conversation
ConversationRecord(interaction_type, user_message, system_prompt, llm_response, parsed_type, parsed_tags, parsed_summary) ==
  [interaction_type |-> interaction_type,
   user_message |-> user_message,
   system_prompt |-> system_prompt,
   llm_response |-> llm_response,
   parsed_type |-> parsed_type,
   parsed_tags |-> IF parsed_tags # None /\ Truthy(parsed_tags[1])
                   THEN Some(json_dumps(parsed_tags[1])) ELSE None,
   parsed_summary |-> parsed_summary]

\* a variant without the failure boundary: a failing log raises into the caller
_log_conversation_Unguarded(w, record, logUp) ==
  IF ~conversation_log THEN [exc |-> "", w |-> w]
  ELSE IF logUp
  THEN [exc |-> "", w |-> Eff([w EXCEPT !.logged = Append(@, record)], "log")]
  ELSE [exc |-> "OSError", w |-> Eff(w, "log:raised")]

\* KnowledgeBrain._log_conversation(...): [exc, w]; every failure of the log
\* is caught and downgraded to a warning
_log_conversation(w, record, logUp) ==
  IF ~conversation_log THEN [exc |-> "", w |-> w]
  ELSE IF logUp
  THEN [exc |-> "", w |-> Eff([w EXCEPT !.logged = Append(@, record)], "log")]
  ELSE [exc |-> "", w |-> Eff(w, "log:raised")]

\* a variant that files a text holding a URL as a link summarised by that URL
_fallback_save_AsLink(text, urls, storeUp, w) ==
  LET item == KnowledgeItem(text, IF urls # <<>> THEN LINK ELSE NOTE, <<>>,
                            IF urls # <<>> THEN urls[1] ELSE "",
                            FirstUrl(urls), None, utcnow(w.items))
      saved == StoreSaveItem(w, item, storeUp)
  IN [exc |-> saved.exc, val |-> FALLBACK_REPLY, w |-> saved.w]

\* KnowledgeBrain._fallback_save(text, urls): [exc, val, w]
_fallback_save(text, urls, storeUp, w) ==
  LET item == KnowledgeItem(text, NOTE, <<>>, "", FirstUrl(urls), None, utcnow(w.items))
      saved == StoreSaveItem(w, item, storeUp)
  IN [exc |-> saved.exc, val |-> FALLBACK_REPLY, w |-> saved.w]

\* list(dict.fromkeys(xs)): duplicates dropped, first-seen order kept
RECURSIVE Dedup(_)
Dedup(xs) ==
  IF xs = <<>> THEN <<>>
  ELSE LET init == Dedup(SubSeq(xs, 1, Len(xs) - 1))
       IN IF xs[Len(xs)] \in Range(init) THEN init ELSE Append(init, xs[Len(xs)])

\* KnowledgeBrain._save_extracted_items(extracted_items, source_url, parent_tags): [exc, w]
RECURSIVE _save_extracted_items(_, _, _, _, _)
_save_extracted_items(w, extracted_items, source_url, parent_tags, storeUp) ==
  IF extracted_items = <<>> THEN [exc |-> "", w |-> w]
  ELSE LET raw == extracted_items[1]
           summary == Get(raw, "summary", "")
       IN IF ~Truthy(summary)
          THEN _save_extracted_items(w, Tail(extracted_items), source_url, parent_tags, storeUp)
          ELSE LET item_tags == Dedup(parent_tags \o Get(raw, "tags", <<>>))
                   item == KnowledgeItem(summary, REFERENCE, item_tags, summary,
                                         source_url, None, utcnow(w.items))
                   saved == StoreSaveItem(w, item, storeUp)
               IN IF saved.exc # "" THEN saved
                  ELSE _save_extracted_items(saved.w, Tail(extracted_items),
                                             source_url, parent_tags, storeUp)

\* capture, steps 6 to 8: the statements after the conversation-log call.
\* Reading an attribute the AnalysisResult dataclass does not define raises
\* AttributeError.
CapturePersist(text, urls, url_content, analysis, storeUp, w) ==
  LET item == KnowledgeItem(text, analysis.item_type, analysis.tags, analysis.summary,
                            FirstUrl(urls), url_content, utcnow(w.items))
      saved == StoreSaveItem(w, item, storeUp)
  IN IF saved.exc # "" THEN Raise(saved.exc, saved.w)
     ELSE IF ~HasAttr(analysis, "extracted_items") THEN Raise("AttributeError", saved.w)
     ELSE LET extracted ==
                IF Truthy(analysis.extracted_items)
                THEN _save_extracted_items(saved.w, analysis.extracted_items,
                                           FirstUrl(urls), analysis.tags, storeUp)
                ELSE [exc |-> "", w |-> saved.w]
          IN IF extracted.exc # "" THEN Raise(extracted.exc, extracted.w)
             ELSE LET updated ==
                        IF TruthyOpt(analysis.overview_update)
                        THEN StoreSaveOverview(extracted.w, analysis.overview_update[1], storeUp)
                        ELSE [exc |-> "", w |-> extracted.w]
                  IN IF updated.exc # "" THEN Raise(updated.exc, updated.w)
                     ELSE IF ~HasAttr(analysis, "capability_request")
                     THEN Raise("AttributeError", updated.w)
                     ELSE Return(analysis.response, analysis.capability_request,
                                 None, updated.w)

\* capture from its second suspension point on: llm.analyze returns or
\* raises as llm, and the rest of capture runs without suspending; system is
\* the system prompt built before the call
CaptureFromAnalyze(text, urls, url_content, user_message, system, llm, logUp, storeUp, w1) ==
  LET raw_response == Analyze(llm, w1)
      analysis == IF raw_response.exc # "" THEN raw_response
                  ELSE from_llm_json(raw_response.val[1])
  IN IF analysis.exc # ""
     THEN LET fb == _fallback_save(text, urls, storeUp, raw_response.w)
          IN IF fb.exc # "" THEN Raise(fb.exc, fb.w)
             ELSE Return(fb.val, FALSE, None, fb.w)
     ELSE LET a == analysis.val[1]
              lg == _log_conversation(
                      raw_response.w,
                      ConversationRecord("capture", user_message, system,
                                         raw_response.val[1], Some(a.item_type),
                                         Some(a.tags), Some(a.summary)),
                      logUp)
          IN IF lg.exc # "" THEN Raise(lg.exc, lg.w)
             ELSE CapturePersist(text, urls, url_content, a, storeUp, lg.w)

\* the message capture sends to the model
UserMessage(text, url_content) ==
  IF TruthyOpt(url_content)
  THEN text \o "\n\n--- Fetched URL Content ---\n" \o url_content[1]
  ELSE text

\* KnowledgeBrain.capture(text)
capture(m, text, fetched, llm, logUp, storeUp, w0) ==
  LET urls == extract_urls(text)
      url_content == IF urls # <<>> THEN fetched ELSE None
      w1 == IF urls # <<>> THEN Eff(w0, "fetch") ELSE w0
      ov == get_overview(w1.overview)
      user_message == UserMessage(text, url_content)
      system == capture_system_prompt(m, ov)
  IN IF system.exc # "" THEN Raise(system.exc, w1)
     ELSE CaptureFromAnalyze(text, urls, url_content, user_message, system.val[1],
                             llm, logUp, storeUp, w1)

\* created_at.strftime('%Y-%m-%d %H:%M') of a tick
strftime(t) == Decimal(t)

\* the lines `[type] summary-or-content[:n]` that the three formatters share
ItemLine(item, n) ==
  "[" \o item.item_type \o "] "
    \o (IF Truthy(item.summary) THEN item.summary ELSE Slice(item.content, n))

\* the text `", ".join(tags) if tags else "no tags"`
TagsText(tags) == IF Truthy(tags) THEN Join(tags, ", ") ELSE "no tags"

\* KnowledgeBrain._format_search_context(results)
_format_search_context(results) ==
  Join([i \in 1..Len(results) |->
          ItemLine(results[i].item, ContextContentChars)
            \o "\n  Tags: " \o TagsText(results[i].item.tags)],
       "\n\n")

\* a variant that lists every result instead of the first five
_format_plain_results_All(results) ==
  Join([i \in 1..Len(results) |-> ItemLine(results[i].item, PlainContentChars)], "\n\n")

\* KnowledgeBrain._format_plain_results(results)
_format_plain_results(results) ==
  LET shown == Slice(results, PlainResultsLimit)
  IN Join([i \in 1..Len(shown) |-> ItemLine(shown[i].item, PlainContentChars)], "\n\n")

\* KnowledgeBrain._format_items_for_prompt(items)
_format_items_for_prompt(its) ==
  Join([i \in 1..Len(its) |->
          ItemLine(its[i], ContextContentChars)
            \o "\n  Tags: " \o TagsText(its[i].tags)
            \o "\n  Created: " \o strftime(its[i].created_at)],
       "\n\n")

\* the except branch of query
QueryFallback(results, w) ==
  IF Truthy(results)
  THEN Return(_format_plain_results(results), FALSE, None, w)
  ELSE Return(QUERY_APOLOGY, FALSE, None, w)

\* KnowledgeBrain.query(question)
query(m, question, llm, logUp, w0) ==
  LET ov == get_overview(w0.overview)
      results == search(w0, question, SearchLimit)
      w1 == Eff(w0, "search")
      context == _format_search_context(results)
      system == query_system_prompt(m, ov, context)
  IN IF system.exc # "" THEN Raise(system.exc, w1)
     ELSE LET answer == Analyze(llm, w1)
          IN IF answer.exc # "" THEN QueryFallback(results, answer.w)
             ELSE LET lg == _log_conversation(
                              answer.w,
                              ConversationRecord("query", question, system.val[1],
                                                 answer.val[1], None, None, None),
                              logUp)
                  IN IF lg.exc # "" THEN QueryFallback(results, lg.w)
                     ELSE Return(answer.val[1], FALSE, None, lg.w)

\* a variant that compares the phrases without lower-casing the answer
_signals_insufficient_capability_CaseSensitive(answer) ==
  \E i \in 1..Len(_INSUFFICIENT_CAPABILITY_SIGNALS) :
    Contains(answer, _INSUFFICIENT_CAPABILITY_SIGNALS[i])

\* KnowledgeBrain._signals_insufficient_capability(answer)
_signals_insufficient_capability(answer) ==
  \E i \in 1..Len(_INSUFFICIENT_CAPABILITY_SIGNALS) :
    Contains(lower(answer), _INSUFFICIENT_CAPABILITY_SIGNALS[i])

\* Python truthiness of a JSON scalar held as its literal
JsonTruthy(v) == v \notin {"false", "null", "0", "\"\""}

\* the try block of check_capability_gap
GapAnalysis(llm, w) ==
  LET raw == Analyze(llm, w)
  IN IF raw.exc # "" THEN Return("", FALSE, None, raw.w)
     ELSE LET data == json_loads(raw.val[1])
          IN IF data.exc # "" THEN Return("", FALSE, None, raw.w)
             ELSE IF data.val[1].t # "object" THEN Return("", FALSE, None, raw.w)
             ELSE IF ~JsonTruthy(Get(data.val[1].o, "can_answer", "true"))
             THEN Return("", FALSE, Some(data.val[1].o), raw.w)
             ELSE Return("", FALSE, None, raw.w)

\* KnowledgeBrain.check_capability_gap(question, answer); m is self.pm
check_capability_gap(m, question, answer, llm, w0) ==
  IF m = None THEN Return("", FALSE, None, w0)
  ELSE IF ~_signals_insufficient_capability(answer) THEN Return("", FALSE, None, w0)
  ELSE LET system == capability_gap_prompt(m[1])
       IN IF system.exc # "" THEN Raise(system.exc, w0)
          ELSE GapAnalysis(llm, w0)

\* a variant that lets the failure out of refresh_overview
RefreshFallback_Raises(w) == Raise("APIError", w)

\* the except branch of refresh_overview
RefreshFallback(w) == Return("Couldn't refresh the overview right now.", FALSE, None, w)

\* KnowledgeBrain.refresh_overview()
refresh_overview(m, llm, logUp, storeUp, w0) ==
  LET ov == get_overview(w0.overview)
      items_text == _format_items_for_prompt(recent(w0.items, RecentLimit))
      system == overview_refresh_prompt(m, ov, items_text)
  IN IF system.exc # "" THEN Raise(system.exc, w0)
     ELSE LET new_overview == Analyze(llm, w0)
          IN IF new_overview.exc # "" THEN RefreshFallback(new_overview.w)
             ELSE LET lg == _log_conversation(
                              new_overview.w,
                              ConversationRecord("overview_refresh",
                                                 "Please regenerate the rolling overview.",
                                                 system.val[1], new_overview.val[1],
                                                 None, None, None),
                              logUp)
                  IN IF lg.exc # "" THEN RefreshFallback(lg.w)
                     ELSE LET saved == StoreSaveOverview(lg.w, new_overview.val[1], storeUp)
                          IN IF saved.exc # "" THEN RefreshFallback(saved.w)
                             ELSE Return("Overview refreshed.", FALSE, None, saved.w)

-----------------------------------------------------------------------------
(* knowledge/prompt_manager.py: PromptManager.update, and the git           *)
(* repository it drives.  The repository is [index, head, commits, remote]: *)
(* the staged files, the files of the HEAD commit, the number of commits    *)
(* and the number of them the remote has.  The working tree is the user     *)
(* directory of the prompt manager.  A call is given git = [add, commit,    *)
(* push]: whether each command can succeed.                                 *)

\* the characters of a $identifier placeholder
IdStart == Chars(LowerAlpha) \cup Chars(UpperAlpha) \cup {"_"}
IdChars == IdStart \cup Chars(Digits)

\* a template file's text as string.Template reads it: literal runs and
\* $identifier placeholders.  The forms $$ and ${identifier} are not
\* modelled; no text of the model uses them.
RECURSIVE TemplateParts(_)
TemplateParts(text) ==
  LET dollars == {j \in 1..(Len(text) - 1) : Char(text, j) = "$" /\ Char(text, j + 1) \in IdStart}
  IN IF text = "" THEN <<>>
     ELSE IF dollars = {} THEN <<Lit(text)>>
     ELSE LET j == CHOOSE d \in dollars : \A o \in dollars : d <= o
              e == CHOOSE x \in (j + 1)..Len(text) :
                     /\ \A k \in (j + 1)..x : Char(text, k) \in IdChars
                     /\ x = Len(text) \/ Char(text, x + 1) \notin IdChars
          IN (IF j > 1 THEN <<Lit(SubSeq(text, 1, j - 1))>> ELSE <<>>)
               \o <<Var(SubSeq(text, j + 1, e))>>
               \o TemplateParts(SubSeq(text, e + 1, Len(text)))

\* git rev-parse --short HEAD: the identifier of the n-th commit
short_hash(n) == "c" \o Decimal(n)

\* the outcome of update: [exc, msg, val, m, repo, steps]; steps are the
\* file write and the git commands it ran, in order
UpdateResult(exc, msg, val, m, rp, steps) ==
  [exc |-> exc, msg |-> msg, val |-> val, m |-> m, repo |-> rp, steps |-> steps]

\* a variant that treats a failed push as a failed update
update_PushMustSucceed(m, rp, name, new_text, git) ==
  IF m.user_dir = None
  THEN UpdateResult("RuntimeError", "Cannot update prompts: PROMPTS_USER_DIR not configured.",
                    "", m, rp, <<>>)
  ELSE LET m1 == [m EXCEPT !.user_dir = Some((name :> TemplateParts(new_text)) @@ m.user_dir[1])]
           rp1 == [rp EXCEPT !.index = (name :> m1.user_dir[1][name]) @@ rp.index]
           rp2 == [rp1 EXCEPT !.head = rp1.index, !.commits = @ + 1]
       IN IF ~git.add
          THEN UpdateResult("RuntimeError", "git add failed", "", m1, rp, <<"write", "add">>)
          ELSE IF ~git.commit \/ rp1.index = rp1.head
          THEN UpdateResult("RuntimeError", "git commit failed", "", m1, rp1,
                            <<"write", "add", "commit">>)
          ELSE IF ~git.push
          THEN UpdateResult("RuntimeError", "git push failed", "", m1, rp2,
                            <<"write", "add", "commit", "rev-parse", "push">>)
          ELSE UpdateResult("", "", short_hash(rp2.commits), m1,
                            [rp2 EXCEPT !.remote = rp2.commits],
                            <<"write", "add", "commit", "rev-parse", "push">>)

\* PromptManager.update(name, new_text).  git commit also fails when the
\* staged files are those of HEAD (nothing to commit).
update(m, rp, name, new_text, git) ==
  IF m.user_dir = None
  THEN UpdateResult("RuntimeError", "Cannot update prompts: PROMPTS_USER_DIR not configured.",
                    "", m, rp, <<>>)
  ELSE LET m1 == [m EXCEPT !.user_dir = Some((name :> TemplateParts(new_text)) @@ m.user_dir[1])]
           rp1 == [rp EXCEPT !.index = (name :> m1.user_dir[1][name]) @@ rp.index]
           rp2 == [rp1 EXCEPT !.head = rp1.index, !.commits = @ + 1]
       IN IF ~git.add
          THEN UpdateResult("RuntimeError", "git add failed", "", m1, rp, <<"write", "add">>)
          ELSE IF ~git.commit \/ rp1.index = rp1.head
          THEN UpdateResult("RuntimeError", "git commit failed", "", m1, rp1,
                            <<"write", "add", "commit">>)
          ELSE UpdateResult("", "", short_hash(rp2.commits), m1,
                            IF git.push THEN [rp2 EXCEPT !.remote = rp2.commits] ELSE rp2,
                            <<"write", "add", "commit", "rev-parse", "push">>)

-----------------------------------------------------------------------------
(* knowledge/brain.py: KnowledgeBrain.evolve_prompt, and the two handlers   *)
(* of bot.py that hold and apply a proposal.  A handler yields [exc, reply, *)
(* user_data, m, repo, steps, updates, w]: updates are the (name, text)     *)
(* pairs PromptManager.update was called with.                              *)

\* the replies of the handlers; the source's long dash is written -
EVOLUTION_UNAVAILABLE ==
  "Prompt evolution not available - no user prompts directory configured."
NO_PENDING_REPLY ==
  "No pending feature proposal. Use /ask first - if I detect a gap I'll offer to fix it."
NOT_ENOUGH_DETAIL_REPLY ==
  "The proposal didn't include enough detail to apply automatically. No changes made."
ASK_USAGE == "Usage: /ask <your question>"
DEFAULT_PROPOSAL == "I could improve my prompts to support this."

\* KnowledgeBrain.evolve_prompt(name, new_text): [reply, m, repo, steps, updates];
\* mo is self.pm
evolve_prompt(mo, rp, name, new_text, git) ==
  IF mo = None
  THEN [reply |-> EVOLUTION_UNAVAILABLE, m |-> mo, repo |-> rp, steps |-> <<>>, updates |-> <<>>]
  ELSE LET r == update(mo[1], rp, name, new_text, git)
       IN [reply |-> IF r.exc = ""
                     THEN "Prompt '" \o name \o "' updated and pushed. Commit: " \o r.val
                     ELSE "Failed to update prompt '" \o name \o "': " \o r.msg,
           m |-> Some(r.m), repo |-> r.repo, steps |-> r.steps,
           updates |-> <<[name |-> name, text |-> new_text]>>]

SessionResult(exc, reply, ud, mo, rp, steps, updates, w) ==
  [exc |-> exc, reply |-> reply, user_data |-> ud, m |-> mo, repo |-> rp,
   steps |-> steps, updates |-> updates, w |-> w]

\* the text an f-string writes for an Optional[str]
StrOf(o) == IF o = None THEN "None" ELSE o[1]

\* a variant that keeps the proposal pending after the confirm
confirm_feature_command_KeepsPending(ud, mo, rp, git, w) ==
  IF ud = None
  THEN SessionResult("", NO_PENDING_REPLY, None, mo, rp, <<>>, <<>>, w)
  ELSE LET prompt_name == Get(ud[1], "prompt_name", None)
           prompt_update == Get(ud[1], "prompt_update", None)
       IN IF ~TruthyOpt(prompt_name) \/ ~TruthyOpt(prompt_update)
          THEN SessionResult("", NOT_ENOUGH_DETAIL_REPLY, None, mo, rp, <<>>, <<>>, w)
          ELSE LET r == evolve_prompt(mo, rp, prompt_name[1], prompt_update[1], git)
               IN SessionResult("", r.reply, ud, r.m, r.repo, r.steps, r.updates, w)

\* a variant that applies a proposal as soon as it names a prompt
confirm_feature_command_NameOnly(ud, mo, rp, git, w) ==
  IF ud = None
  THEN SessionResult("", NO_PENDING_REPLY, None, mo, rp, <<>>, <<>>, w)
  ELSE LET prompt_name == Get(ud[1], "prompt_name", None)
           prompt_update == Get(ud[1], "prompt_update", None)
       IN IF ~TruthyOpt(prompt_name)
          THEN SessionResult("", NOT_ENOUGH_DETAIL_REPLY, None, mo, rp, <<>>, <<>>, w)
          ELSE LET r == evolve_prompt(mo, rp, prompt_name[1], StrOf(prompt_update), git)
               IN SessionResult("", r.reply, None, r.m, r.repo, r.steps, r.updates, w)

\* bot.confirm_feature_command: ud is context.user_data's pending proposal,
\* popped whatever follows
confirm_feature_command(ud, mo, rp, git, w) ==
  IF ud = None
  THEN SessionResult("", NO_PENDING_REPLY, None, mo, rp, <<>>, <<>>, w)
  ELSE LET prompt_name == Get(ud[1], "prompt_name", None)
           prompt_update == Get(ud[1], "prompt_update", None)
       IN IF ~TruthyOpt(prompt_name) \/ ~TruthyOpt(prompt_update)
          THEN SessionResult("", NOT_ENOUGH_DETAIL_REPLY, None, mo, rp, <<>>, <<>>, w)
          ELSE LET r == evolve_prompt(mo, rp, prompt_name[1], prompt_update[1], git)
               IN SessionResult("", r.reply, None, r.m, r.repo, r.steps, r.updates, w)

\* a variant that drops the pending proposal when no gap is detected
ask_reply_ClearsPending(ud, mo, rp, answer, gap) ==
  IF gap.exc # "" THEN SessionResult(gap.exc, "", ud, mo, rp, <<>>, <<>>, gap.w)
  ELSE IF gap.gap # None
  THEN SessionResult(
         "",
         answer.reply \o "\n\n---\n"
           \o StrOf(Get(gap.gap[1], "proposal", Some(DEFAULT_PROPOSAL)))
           \o "\n\nType /confirm_feature to apply this improvement.",
         gap.gap, mo, rp, <<>>, <<>>, gap.w)
  ELSE SessionResult("", answer.reply, None, mo, rp, <<>>, <<>>, gap.w)

\* bot.ask_command once brain.check_capability_gap has returned or raised as
\* gap: a detected gap becomes the session's pending proposal and an
\* undetected one leaves the session alone
ask_reply(ud, mo, rp, answer, gap) ==
  IF gap.exc # "" THEN SessionResult(gap.exc, "", ud, mo, rp, <<>>, <<>>, gap.w)
  ELSE IF gap.gap # None
  THEN SessionResult(
         "",
         answer.reply \o "\n\n---\n"
           \o StrOf(Get(gap.gap[1], "proposal", Some(DEFAULT_PROPOSAL)))
           \o "\n\nType /confirm_feature to apply this improvement.",
         gap.gap, mo, rp, <<>>, <<>>, gap.w)
  ELSE SessionResult("", answer.reply, ud, mo, rp, <<>>, <<>>, gap.w)

\* bot.ask_command once brain.query has returned or raised as answer
ask_gap_check(ud, mo, rp, question, gapLlm, answer) ==
  IF answer.exc # "" THEN SessionResult(answer.exc, "", ud, mo, rp, <<>>, <<>>, answer.w)
  ELSE ask_reply(ud, mo, rp, answer,
                 check_capability_gap(mo, question, answer.reply, gapLlm, answer.w))

\* bot.ask_command(update, context) with context.args joined as question
ask_command(ud, mo, rp, question, llm, gapLlm, logUp, w0) ==
  IF ~Truthy(question) THEN SessionResult("", ASK_USAGE, ud, mo, rp, <<>>, <<>>, w0)
  ELSE ask_gap_check(ud, mo, rp, question, gapLlm, query(mo[1], question, llm, logUp, w0))

-----------------------------------------------------------------------------
(* The deployment the model runs: the prompt directories, the rows an      *)
(* earlier run left in the database, and the inputs and collaborator       *)
(* outcomes the operations are exercised with.                             *)

BaseTemplates ==
  ("capture" :> <<Lit("Types: "), Var("item_types"), Lit(" Overview: "), Var("overview")>>)
    @@ ("query" :> <<Lit("Overview: "), Var("overview"), Lit(" Items: "),
                     Var("context_items"), Var("today")>>)
    @@ ("overview_refresh" :> <<Var("overview"), Lit(" Recent: "), Var("recent_items")>>)
    @@ ("capability_gap" :> <<Lit("Can the bot answer this?")>>)

\* base prompts present, no user tier
FullPM == [base_dir |-> BaseTemplates, user_dir |-> None]

\* a base directory that holds no template
EmptyPM == [base_dir |-> <<>>, user_dir |-> None]

\* base prompts and a user tier that is configured and still empty
UserPM == [base_dir |-> BaseTemplates, user_dir |-> Some(<<>>)]

\* a user tier that overrides "query" and holds "journal", which the base
\* tier lacks
UserTemplates ==
  ("query" :> <<Lit("Custom. Items: "), Var("context_items")>>)
    @@ ("journal" :> <<Lit("Journal of "), Var("today")>>)

OverridePM == [base_dir |-> BaseTemplates, user_dir |-> Some(UserTemplates)]

\* the repository of the user directory as _sync_user_repo cloned it
RepoOf(mo) ==
  IF mo = None \/ mo[1].user_dir = None \/ DOMAIN mo[1].user_dir[1] = {}
  THEN [index |-> <<>>, head |-> <<>>, commits |-> 0, remote |-> 0]
  ELSE [index |-> mo[1].user_dir[1], head |-> mo[1].user_dir[1], commits |-> 1, remote |-> 1]

\* the items saved by earlier runs: six that mention "grant", of several
\* types, two of them saved by the fallback path, one longer than 80 characters
SeedItems ==
  << KnowledgeItem("Arts grant closes in March", NOTE, <<"arts", "deadline">>,
                   "Arts grant deadline", None, None, 1),
     KnowledgeItem("apply for the travel grant", NOTE, <<>>, "", None, None, 2),
     KnowledgeItem("grant notes: the panel wants a budget, a timeline, two referees and a short video pitch",
                   NOTE, <<>>, "", None, None, 3),
     KnowledgeItem("see http://d.io/grants", LINK, <<"grants">>, "Grant calendar",
                   Some("http://d.io/grants"), Some("Open grant rounds"), 4),
     KnowledgeItem("idea: grant tracker", IDEA, <<"tools">>, "Track each grant", None, None, 5),
     KnowledgeItem("submit the grant report", TASK, <<"admin">>, "Grant report due", None, None, 6) >>

RECURSIVE SaveAll(_, _)
SaveAll(db, its) ==
  IF its = <<>> THEN db ELSE SaveAll(save_item(db, its[1]), Tail(its))

\* the database those runs left
SeedDb == SaveAll([items |-> <<>>, fts |-> <<>>], SeedItems)

\* how many rows one run may add to the seeded table
MaxNewRows == 1

Texts == { "new grant idea", "see HTTPS://a.io/x, (http://b.io)" }

\* how a fetch can end: the request or the extraction raises error, or the
\* page yields text
FetchResponses ==
  { [error |-> "ConnectError", text |-> ""],
    [error |-> "TimeoutException", text |-> ""],
    [error |-> "HTTPStatusError", text |-> "Not Found"],
    [error |-> "ParserError", text |-> ""],
    [error |-> "", text |-> ""],
    [error |-> "", text |-> "Grant page"] }

\* what fetch_url_content returns: None on any failure, else the page text
FetchOutcomes == { fetch_url_content(r) : r \in FetchResponses }

Questions == { "grant", "zebra", "Arts grant", "any grant?" }

AnalysisNote ==
  Obj(("item_type" :> NOTE) @@ ("tags" :> <<"test">>) @@ ("summary" :> "A test note")
        @@ ("response" :> "Got it!") @@ ("overview_update" :> None))

AnalysisLink ==
  Obj(("item_type" :> LINK) @@ ("tags" :> <<"grants", "nsw">>)
        @@ ("summary" :> "Funding calendar") @@ ("response" :> "Saved the calendar.")
        @@ ("overview_update" :> Some("## Projects"))
        @@ ("capability_request" :> FALSE)
        @@ ("extracted_items" :>
              << ("summary" :> "Quick grant") @@ ("tags" :> <<"nsw", "quick">>),
                 ("summary" :> "") @@ ("tags" :> <<"skipped">>),
                 ("summary" :> "Regional fund") >>))

AnalysisIdea ==
  Obj(("item_type" :> IDEA) @@ ("tags" :> <<>>) @@ ("summary" :> "")
        @@ ("response" :> "Noted.") @@ ("overview_update" :> Some(""))
        @@ ("capability_request" :> TRUE) @@ ("extracted_items" :> <<>>))

AnalysisNoResponse ==
  Obj(("item_type" :> NOTE) @@ ("tags" :> <<>>) @@ ("summary" :> "no reply"))

AnalysisBadType ==
  Obj(("item_type" :> "event") @@ ("tags" :> <<>>) @@ ("summary" :> "s")
        @@ ("response" :> "Saved!") @@ ("overview_update" :> Some("## Events")))

Raises == [raises |-> TRUE, text |-> ""]
Replies(text) == [raises |-> FALSE, text |-> text]

AnalysisTask ==
  Obj(("item_type" :> TASK) @@ ("tags" :> <<"todo">>) @@ ("summary" :> "Apply by March")
        @@ ("response" :> "Added the task.") @@ ("overview_update" :> Some("## Tasks")))

\* outcomes of llm.analyze during capture
CaptureReplies ==
  << Raises,
     Replies(<<json_dumps(AnalysisNote)>>),
     Replies(<<Fence, json_dumps(AnalysisLink), Fence>>),
     Replies(<<Blank, json_dumps(AnalysisIdea), Blank>>),
     Replies(<<Prose>>),
     Replies(<<json_dumps(AnalysisNoResponse)>>),
     Replies(<<json_dumps(AnalysisBadType)>>) >>

\* outcomes of llm.analyze for captures in flight together: a failure, an
\* analysis without an overview update and two with different updates
TaskReplies ==
  << Raises,
     Replies(<<json_dumps(AnalysisNote)>>),
     Replies(<<Fence, json_dumps(AnalysisLink), Fence>>),
     Replies(<<json_dumps(AnalysisTask)>>) >>

\* answers the bot may have given
Answers ==
  { "You have six grant notes.",
    "I DON'T HAVE anything on that.",
    "There is No Record of it.",
    "Nodata; it is not\ntracked.",
    "" }

\* outcomes of llm.analyze during query
QueryReplies ==
  { Raises, Replies("You have six grant notes."), Replies("I DON'T HAVE anything on that.") }

\* outcomes of llm.analyze during refresh_overview
RefreshReplies == { Raises, Replies("## Grants"), Replies("") }

GapProposal ==
  ("can_answer" :> "false") @@ ("gap_description" :> Some("no birthdays"))
    @@ ("proposal" :> Some("Track birthdays")) @@ ("prompt_name" :> Some("capture"))
    @@ ("prompt_update" :> Some("Also track birthdays."))

\* outcomes of llm.analyze during check_capability_gap
GapReplies ==
  << Raises,
     Replies(<<Prose>>),
     Replies(<<json_dumps(Arr)>>),
     Replies(<<json_dumps(Obj(<<>>))>>),
     Replies(<<json_dumps(Obj(("can_answer" :> "true")))>>),
     Replies(<<json_dumps(Obj(GapProposal))>>),
     Replies(<<json_dumps(Obj(("can_answer" :> "null") @@ ("proposal" :> Some("Maybe"))))>>) >>

\* a proposal for the "query" prompt whose text holds a placeholder
GapProposalQuery ==
  ("can_answer" :> "false") @@ ("proposal" :> Some("Answer from birthdays"))
    @@ ("prompt_name" :> Some("query"))
    @@ ("prompt_update" :> Some("Birthdays too. Items: $context_items"))

\* outcomes of the gap analysis during /ask: a failure, no gap, two complete
\* proposals, and proposals lacking the prompt name, the text, or both
SessionGapReplies ==
  << Raises,
     Replies(<<json_dumps(Obj(("can_answer" :> "true")))>>),
     Replies(<<json_dumps(Obj(GapProposal))>>),
     Replies(<<json_dumps(Obj(GapProposalQuery))>>),
     Replies(<<json_dumps(Obj(("can_answer" :> "false") @@ ("proposal" :> Some("Maybe"))))>>),
     Replies(<<json_dumps(Obj(("can_answer" :> "false") @@ ("prompt_name" :> None)
                                @@ ("prompt_update" :> Some("Answer briefly."))))>>),
     Replies(<<json_dumps(Obj(("can_answer" :> "false") @@ ("prompt_name" :> Some("query"))
                                @@ ("prompt_update" :> Some(""))))>>) >>

\* the questions of /ask; "" is /ask with no argument
AskQuestions == { "grant", "" }

\* whether git add, git commit and git push can succeed during an update:
\* all of them, or all but one
GitOk == [add |-> TRUE, commit |-> TRUE, push |-> TRUE]
GitOutcomes ==
  { GitOk, [GitOk EXCEPT !.add = FALSE], [GitOk EXCEPT !.commit = FALSE],
    [GitOk EXCEPT !.push = FALSE] }

\* outcomes of llm.analyze during the query of /ask
AskReplies == { Replies("You have six grant notes."), Replies("I DON'T HAVE anything on that.") }

UpdateNames == { "query" }
UpdateTexts == { "Custom. Items: $context_items", "Answer briefly." }

LoadNames == { "capture", "query", "journal", "missing" }
LoadKwargs == { <<>>, ("overview" :> "Grants") @@ ("context_items" :> "[note] x") }

\* the items the store is exercised with directly
StoreItems ==
  << KnowledgeItem("grant funding deadline", NOTE, <<>>, "NSW grant", None, None, 0),
     KnowledgeItem("totally unrelated content", TASK, <<>>, "nothing", None, None, 0),
     KnowledgeItem("pi day", IDEA, <<"π", "maths">>, "", Some("http://pi.io"), Some("3.14"), 0),
     KnowledgeItem("NSW Create grants open March 2025", NOTE, <<"nsw">>, "grants", None, None, 0) >>

\* the queries of a direct search
SearchQueries ==
  { "grants funding deadline", "grant funding", "grants March", "grants March?",
    "π", "maths", "zebra" }

SearchLimits == { 1, 10 }

\* the readings of the wall clock items are stamped with
ClockReadings == {1, 2}

\* the limits recent is called with
RecentLimits == {1, 2, 10}

\* the overview texts save_overview is called with
OverviewTexts ==
  {"v1", "v2", "## Projects\n- eink book", "## Grants", "Important overview", ""}

\* the number of rows a run of the store saves at most
MaxSaves == 3

\* the number of commits the user repository holds at most
MaxCommits == 2

-----------------------------------------------------------------------------
(* The state machine.  A call arrives with its argument and with what the   *)
(* collaborators will do while it runs (the model's reply, the fetched      *)
(* page, whether the log and the database can be written); the operation    *)
(* then runs to completion: no other call interleaves with it.              *)

\* the capture coroutines that may be in flight at once
TaskIds == {1, 2}

\* a capture coroutine: where it stands (idle, fetching, analyzing, done), its
\* locals, and once done its outcome: the ids of the rows it saved, the
\* effects it had and its place in the order of completion
IdleTask ==
  [pc |-> "idle", text |-> "", url_content |-> <<>>, user_message |-> "", system |-> "",
   llm |-> [raises |-> TRUE, text |-> ""], exc |-> "", reply |-> "", rows |-> <<>>,
   effects |-> <<>>, order |-> 0]

\* no capture coroutine is in flight
NoTasks == [t \in TaskIds |-> IdleTask]

World ==
  [items |-> items, fts |-> items_fts, overview |-> overview, md |-> overview_md,
   effects |-> <<>>, logged |-> <<>>]

Pending(op, text, answer, fetched, llm, logUp, storeUp) ==
  [op |-> op, phase |-> "pending", text |-> text, answer |-> answer,
   fetched |-> fetched, llm |-> llm, logUp |-> logUp, storeUp |-> storeUp,
   exc |-> "", reply |-> "", flag |-> FALSE, gap |-> None,
   effects |-> <<>>, logged |-> <<>>, items0 |-> Len(items), overview0 |-> overview,
   md0 |-> overview_md]

\* the operation has run with outcome r: its writes reach the tables
Complete(r) ==
  /\ items' = r.w.items
  /\ items_fts' = r.w.fts
  /\ overview' = r.w.overview
  /\ call' = [call EXCEPT !.phase = "done", !.exc = r.exc, !.reply = r.reply,
                          !.flag = r.flag, !.gap = r.gap,
                          !.effects = r.w.effects, !.logged = r.w.logged]
  /\ overview_md' = r.w.md
  /\ UNCHANGED <<pm, conversation_log, user_data, repo, tasks>>

LogOutcomes == IF conversation_log THEN BOOLEAN ELSE {TRUE}

Init ==
  /\ items = SeedDb.items
  /\ items_fts = SeedDb.fts
  /\ overview = None
  /\ overview_md = [path |-> TRUE, file |-> None]
  /\ pm \in {None, Some(FullPM), Some(EmptyPM)}
  /\ conversation_log \in BOOLEAN
  /\ call = [Pending("start", "", "", None, Raises, TRUE, TRUE) EXCEPT !.phase = "done"]
  /\ user_data = None
  /\ repo = RepoOf(pm)
  /\ tasks = NoTasks

\* a deployment with base prompts and, in two of three cases, a user tier
UserTierInit ==
  /\ items = SeedDb.items
  /\ items_fts = SeedDb.fts
  /\ overview = None
  /\ overview_md = [path |-> TRUE, file |-> None]
  /\ pm \in {Some(FullPM), Some(UserPM), Some(OverridePM)}
  /\ conversation_log = FALSE
  /\ call = [Pending("start", "", "", None, Raises, TRUE, TRUE) EXCEPT !.phase = "done"]
  /\ user_data = None
  /\ repo = RepoOf(pm)
  /\ tasks = NoTasks

\* a store opened on a new database file
StoreInit ==
  /\ items = <<>>
  /\ items_fts = <<>>
  /\ overview = None
  /\ overview_md = [path |-> FALSE, file |-> None]
  /\ pm = None
  /\ conversation_log = FALSE
  /\ call = [Pending("start", "", "", None, Raises, TRUE, TRUE) EXCEPT !.phase = "done"]
  /\ user_data = None
  /\ repo = RepoOf(pm)
  /\ tasks = NoTasks

\* a text message arrives: the bot calls brain.capture(text)
CallCapture ==
  /\ call.phase = "done"
  /\ pm # None
  /\ Len(items) < Len(SeedDb.items) + MaxNewRows
  /\ \E text \in Texts, i \in 1..Len(CaptureReplies), logUp \in LogOutcomes, storeUp \in BOOLEAN :
       \E fetched \in (IF extract_urls(text) = <<>> THEN {None} ELSE FetchOutcomes) :
         call' = Pending("capture", text, "", fetched, CaptureReplies[i], logUp, storeUp)
  /\ UNCHANGED <<items, items_fts, overview, pm, conversation_log, user_data, repo,
               overview_md, tasks>>

\* brain.capture(text) runs
Capture ==
  /\ call.phase = "pending" /\ call.op = "capture"
  /\ Complete(capture(pm[1], call.text, call.fetched, call.llm, call.logUp, call.storeUp, World))

\* /ask arrives: the bot calls brain.query(question)
CallQuery ==
  /\ call.phase = "done"
  /\ pm # None
  /\ \E question \in Questions, llm \in QueryReplies, logUp \in LogOutcomes :
       call' = Pending("query", question, "", None, llm, logUp, TRUE)
  /\ UNCHANGED <<items, items_fts, overview, pm, conversation_log, user_data, repo,
               overview_md, tasks>>

\* brain.query(question) runs
Query ==
  /\ call.phase = "pending" /\ call.op = "query"
  /\ Complete(query(pm[1], call.text, call.llm, call.logUp, World))

\* /overview refresh arrives: the bot calls brain.refresh_overview()
CallRefreshOverview ==
  /\ call.phase = "done"
  /\ pm # None
  /\ \E llm \in RefreshReplies, logUp \in LogOutcomes, storeUp \in BOOLEAN :
       call' = Pending("refresh_overview", "", "", None, llm, logUp, storeUp)
  /\ UNCHANGED <<items, items_fts, overview, pm, conversation_log, user_data, repo,
               overview_md, tasks>>

\* brain.refresh_overview() runs
RefreshOverview ==
  /\ call.phase = "pending" /\ call.op = "refresh_overview"
  /\ Complete(refresh_overview(pm[1], call.llm, call.logUp, call.storeUp, World))

\* after an answer the bot calls brain.check_capability_gap(question, answer)
CallCheckCapabilityGap ==
  /\ call.phase = "done"
  /\ \E answer \in Answers, i \in 1..Len(GapReplies) :
       call' = Pending("check_capability_gap", "when is Ana's birthday", answer, None,
                       GapReplies[i], TRUE, TRUE)
  /\ UNCHANGED <<items, items_fts, overview, pm, conversation_log, user_data, repo,
               overview_md, tasks>>

\* brain.check_capability_gap(question, answer) runs
CheckCapabilityGap ==
  /\ call.phase = "pending" /\ call.op = "check_capability_gap"
  /\ Complete(check_capability_gap(pm, call.text, call.answer, call.llm, World))

\* a store opened on a new database file, with or without an overview mirror
MirrorInit ==
  /\ items = <<>>
  /\ items_fts = <<>>
  /\ overview = None
  /\ overview_md \in {[path |-> FALSE, file |-> None], [path |-> TRUE, file |-> None]}
  /\ pm = None
  /\ conversation_log = FALSE
  /\ call = [Pending("start", "", "", None, Raises, TRUE, TRUE) EXCEPT !.phase = "done"]
  /\ user_data = None
  /\ repo = RepoOf(pm)
  /\ tasks = NoTasks

\* a call of a chat handler or of the prompt manager: the call record also
\* holds the session, the prompt manager and the repository as it found them
SessionCall(op, text, answer, llm, gapLlm, git, logUp) ==
  Pending(op, text, answer, None, llm, logUp, TRUE)
    @@ [gapLlm |-> gapLlm, git |-> git, user_data0 |-> user_data, pm0 |-> pm,
        repo0 |-> repo, steps |-> <<>>, updates |-> <<>>]

\* the handler called as c has run with outcome r
CompleteSession(c, r) ==
  /\ items' = r.w.items
  /\ items_fts' = r.w.fts
  /\ overview' = r.w.overview
  /\ user_data' = r.user_data
  /\ pm' = r.m
  /\ repo' = r.repo
  /\ call' = [c EXCEPT !.phase = "done", !.exc = r.exc, !.reply = r.reply,
                       !.effects = r.w.effects, !.logged = r.w.logged,
                       !.steps = r.steps, !.updates = r.updates]
  /\ overview_md' = r.w.md
  /\ UNCHANGED <<conversation_log, tasks>>

\* /ask <question> arrives
CallAsk ==
  /\ call.phase = "done"
  /\ pm # None
  /\ \E question \in AskQuestions, llm \in AskReplies, g \in 1..Len(SessionGapReplies),
        logUp \in LogOutcomes :
       call' = SessionCall("ask", question, "", llm, SessionGapReplies[g], GitOk, logUp)
  /\ UNCHANGED <<items, items_fts, overview, pm, conversation_log, user_data, repo,
               overview_md, tasks>>

\* bot.ask_command runs
Ask ==
  /\ call.phase = "pending" /\ call.op = "ask"
  /\ CompleteSession(call, ask_command(user_data, pm, repo, call.text, call.llm,
                                       call.gapLlm, call.logUp, World))

\* /confirm_feature arrives and bot.confirm_feature_command runs
ConfirmFeature ==
  /\ call.phase = "done"
  /\ repo.commits < MaxCommits
  /\ \E git \in GitOutcomes :
       CompleteSession(SessionCall("confirm_feature", "", "", Raises, Raises, git, TRUE),
                       confirm_feature_command(user_data, pm, repo, git, World))

\* PromptManager.update(name, new_text) is called
Update ==
  /\ call.phase = "done"
  /\ pm # None
  /\ repo.commits < MaxCommits
  /\ \E name \in UpdateNames, new_text \in UpdateTexts, git \in GitOutcomes :
       LET r == update(pm[1], repo, name, new_text, git)
       IN /\ pm' = Some(r.m)
          /\ repo' = r.repo
          /\ call' = [SessionCall("update", name, new_text, Raises, Raises, git, TRUE)
                        EXCEPT !.phase = "done", !.exc = r.exc, !.reply = r.val,
                               !.steps = r.steps]
  /\ UNCHANGED <<items, items_fts, overview, conversation_log, user_data, overview_md, tasks>>

\* brain.evolve_prompt(name, new_text) is called
EvolvePrompt ==
  /\ call.phase = "done"
  /\ repo.commits < MaxCommits
  /\ \E name \in UpdateNames, new_text \in UpdateTexts, git \in GitOutcomes :
       LET r == evolve_prompt(pm, repo, name, new_text, git)
       IN /\ pm' = r.m
          /\ repo' = r.repo
          /\ call' = [SessionCall("evolve_prompt", name, new_text, Raises, Raises, git, TRUE)
                        EXCEPT !.phase = "done", !.reply = r.reply, !.steps = r.steps,
                               !.updates = r.updates]
  /\ UNCHANGED <<items, items_fts, overview, conversation_log, user_data, overview_md, tasks>>

\* PromptManager.load(name, **kwargs) is called
Load ==
  /\ call.phase = "done"
  /\ pm # None
  /\ \E name \in LoadNames, kwargs \in LoadKwargs :
       LET r == load(pm[1], name, kwargs)
       IN call' = [SessionCall("load", name, "", Raises, Raises, GitOk, TRUE)
                     EXCEPT !.phase = "done", !.exc = r.exc,
                            !.reply = IF r.exc = "" THEN r.val[1] ELSE ""]
                     @@ [kwargs |-> kwargs]
  /\ UNCHANGED <<items, items_fts, overview, pm, conversation_log, user_data, repo,
               overview_md, tasks>>

\* a call made on the store directly: its argument, its result and the
\* tables as it found them
StoreCall(op, arg, result) ==
  [op |-> op, phase |-> "done", arg |-> arg, result |-> result,
   rows0 |-> items, fts0 |-> items_fts]

\* SQLiteStore.save_item(item) is called with a newly built item
SaveItem ==
  /\ call.phase = "done"
  /\ Len(items) < MaxSaves
  /\ \E i \in 1..Len(StoreItems) :
       LET item == [StoreItems[i] EXCEPT !.created_at = utcnow(items)]
           db == save_item([items |-> items, fts |-> items_fts], item)
       IN /\ items' = db.items
          /\ items_fts' = db.fts
          /\ call' = StoreCall("save_item", item, db.items[Len(db.items)].id)
  /\ UNCHANGED <<overview, pm, conversation_log, user_data, repo, overview_md, tasks>>

\* SQLiteStore.search(query, limit) is called
Search ==
  /\ call.phase = "done"
  /\ \E q \in SearchQueries, limit \in SearchLimits :
       call' = StoreCall("search", [query |-> q, limit |-> limit],
                         search([items |-> items, fts |-> items_fts], q, limit))
  /\ UNCHANGED <<items, items_fts, overview, pm, conversation_log, user_data, repo,
               overview_md, tasks>>

\* SQLiteStore.get_item(item_id) is called
GetItem ==
  /\ call.phase = "done"
  /\ \E item_id \in 1..(MaxSaves + 1) :
       call' = StoreCall("get_item", item_id, get_item(items, item_id))
  /\ UNCHANGED <<items, items_fts, overview, pm, conversation_log, user_data, repo,
               overview_md, tasks>>

\* SQLiteStore.count() is called
CountItems ==
  /\ call.phase = "done"
  /\ call' = StoreCall("count", <<>>, count(items))
  /\ UNCHANGED <<items, items_fts, overview, pm, conversation_log, user_data, repo,
               overview_md, tasks>>

\* SQLiteStore.save_overview(text) is called; result is the exception it raised
SaveOverview ==
  /\ call.phase = "done"
  /\ \E text \in OverviewTexts, mdUp \in BOOLEAN :
       LET md == _export_overview_md(overview_md, text, utcnow(items), mdUp)
       IN /\ overview' = save_overview(overview, text)
          /\ overview_md' = md.md
          /\ call' = StoreCall("save_overview", [text |-> text, mdUp |-> mdUp], md.exc)
  /\ UNCHANGED <<items, items_fts, pm, conversation_log, user_data, repo, tasks>>

\* SQLiteStore.get_overview() is called
GetOverview ==
  /\ call.phase = "done"
  /\ call' = StoreCall("get_overview", <<>>, get_overview(overview))
  /\ UNCHANGED <<items, items_fts, overview, pm, conversation_log, user_data, repo,
               overview_md, tasks>>

\* SQLiteStore.save_item(item) is called with an item whose created_at the wall
\* clock gave: a reading can repeat the last one or, after a clock step, lie
\* before it
SaveItemAt ==
  /\ call.phase = "done"
  /\ Len(items) < MaxSaves
  /\ \E i \in 1..Len(StoreItems), now \in ClockReadings :
       LET item == [StoreItems[i] EXCEPT !.created_at = now]
           db == save_item([items |-> items, fts |-> items_fts], item)
       IN /\ items' = db.items
          /\ items_fts' = db.fts
          /\ call' = StoreCall("save_item", item, db.items[Len(db.items)].id)
  /\ UNCHANGED <<overview, pm, conversation_log, user_data, repo, overview_md, tasks>>

\* SQLiteStore.recent(limit) is called
Recent ==
  /\ call.phase = "done"
  /\ \E limit \in RecentLimits :
       call' = StoreCall("recent", limit, recent(items, limit))
  /\ UNCHANGED <<items, items_fts, overview, pm, conversation_log, user_data, repo,
               overview_md, tasks>>

\* capture between its two suspension points: the overview has been read and
\* system is the system prompt built from it, or the failure to build it;
\* the coroutine then waits for the model, and a missing template ends it
AtPrompt(task, url_content, system) ==
  IF system.exc # ""
  THEN [task EXCEPT !.pc = "done", !.url_content = url_content, !.exc = system.exc,
                    !.order = 1 + Cardinality({u \in TaskIds : tasks[u].pc = "done"})]
  ELSE [task EXCEPT !.pc = "analyzing", !.url_content = url_content,
                    !.user_message = UserMessage(task.text, url_content),
                    !.system = system.val[1]]

\* a text message arrives while another capture may be in flight: capture
\* runs up to its first suspension point, the fetch when the text holds a
\* URL and the model call otherwise
StartCapture ==
  /\ pm # None
  /\ \E t \in TaskIds, text \in Texts :
       /\ tasks[t].pc = "idle"
       /\ tasks' = [tasks EXCEPT ![t] =
                      IF extract_urls(text) # <<>>
                      THEN [IdleTask EXCEPT !.pc = "fetching", !.text = text]
                      ELSE AtPrompt([IdleTask EXCEPT !.text = text], None,
                                    capture_system_prompt(pm[1], get_overview(overview)))]
  /\ UNCHANGED <<items, items_fts, overview, pm, conversation_log, call, user_data, repo,
               overview_md>>

\* fetch_url_content returns to a waiting capture
FetchReturns ==
  /\ \E t \in TaskIds, fetched \in FetchOutcomes :
       /\ tasks[t].pc = "fetching"
       /\ tasks' = [tasks EXCEPT ![t] =
                      AtPrompt(tasks[t], fetched,
                               capture_system_prompt(pm[1], get_overview(overview)))]
  /\ UNCHANGED <<items, items_fts, overview, pm, conversation_log, call, user_data, repo,
               overview_md>>

\* capture t has run from the return of the model call to its end with
\* outcome r: its writes reach the tables
CompleteTask(t, llm, r) ==
  /\ items' = r.w.items
  /\ items_fts' = r.w.fts
  /\ overview' = r.w.overview
  /\ overview_md' = r.w.md
  /\ tasks' = [tasks EXCEPT ![t] =
                 [@ EXCEPT !.pc = "done", !.llm = llm, !.exc = r.exc,
                           !.reply = r.reply, !.effects = r.w.effects,
                           !.rows = [j \in 1..(Len(r.w.items) - Len(items)) |->
                                       r.w.items[Len(items) + j].id],
                           !.order = 1 + Cardinality({u \in TaskIds :
                                                       tasks[u].pc = "done"})]]
  /\ UNCHANGED <<pm, conversation_log, call, user_data, repo>>

\* llm.analyze returns or raises to a waiting capture, which then runs to
\* its end on the tables as they are now
AnalyzeReturns ==
  \E t \in TaskIds, i \in 1..Len(TaskReplies) :
    /\ tasks[t].pc = "analyzing"
    /\ CompleteTask(t, TaskReplies[i],
                    CaptureFromAnalyze(tasks[t].text, extract_urls(tasks[t].text),
                                       tasks[t].url_content, tasks[t].user_message,
                                       tasks[t].system, TaskReplies[i], TRUE, TRUE, World))

Next ==
  \/ CallCapture \/ Capture
  \/ CallQuery \/ Query
  \/ CallRefreshOverview \/ RefreshOverview
  \/ CallCheckCapabilityGap \/ CheckCapabilityGap
  \/ CallAsk \/ Ask \/ ConfirmFeature
  \/ Update \/ Load \/ EvolvePrompt
  \/ SaveItem \/ Search \/ GetItem \/ CountItems
  \/ SaveOverview \/ GetOverview
  \/ SaveItemAt \/ Recent
  \/ StartCapture \/ FetchReturns \/ AnalyzeReturns

\* every operation, in any order
Spec == Init /\ [][Next]_vars

\* runs that only capture
CaptureNext == CallCapture \/ Capture
CaptureSpec == Init /\ [][CaptureNext]_vars

\* runs that capture and query
QueryNext == CallCapture \/ Capture \/ CallQuery \/ Query
QuerySpec == Init /\ [][QueryNext]_vars

\* runs of the three operations that write the conversation log
LogNext ==
  \/ CallCapture \/ Capture
  \/ CallQuery \/ Query
  \/ CallRefreshOverview \/ RefreshOverview
LogSpec == Init /\ [][LogNext]_vars

\* runs that only check answers for a capability gap
GapNext == CallCheckCapabilityGap \/ CheckCapabilityGap
GapSpec == Init /\ [][GapNext]_vars

\* a chat session on a deployment with a user tier: questions and confirms
SessionNext == CallAsk \/ Ask \/ ConfirmFeature
SessionSpec == UserTierInit /\ [][SessionNext]_vars

\* the prompt manager alone: updates and loads
PromptNext == Update \/ Load
PromptSpec == UserTierInit /\ [][PromptNext]_vars

\* the store alone, from a new database
StoreNext == SaveItem \/ Search \/ GetItem \/ CountItems
StoreSpec == StoreInit /\ [][StoreNext]_vars

\* runs that only refresh the overview
RefreshNext == CallRefreshOverview \/ RefreshOverview
RefreshSpec == Init /\ [][RefreshNext]_vars

\* saves under a clock that can repeat or step back, and listings
RecentNext == SaveItemAt \/ Recent
RecentSpec == StoreInit /\ [][RecentNext]_vars

\* the overview row and its mirror file
OverviewNext == SaveOverview \/ GetOverview
OverviewSpec == MirrorInit /\ [][OverviewNext]_vars

\* the operations of the core and the store's readers, in any order
CoreNext ==
  \/ CallCapture \/ Capture
  \/ CallQuery \/ Query
  \/ CallRefreshOverview \/ RefreshOverview
  \/ CallCheckCapabilityGap \/ CheckCapabilityGap
  \/ EvolvePrompt
  \/ Search \/ Recent \/ GetItem \/ CountItems \/ GetOverview

\* a deployment without a conversation log
CoreInit == Init /\ conversation_log = FALSE
CoreSpec == CoreInit /\ [][CoreNext]_vars

\* captures in flight together, interleaving at their suspension points
ConcurrentNext == StartCapture \/ FetchReturns \/ AnalyzeReturns
ConcurrentSpec == Init /\ [][ConcurrentNext]_vars

-----------------------------------------------------------------------------
(* Properties.  A completed call is read from `call`; the rows it added are *)
(* those past call.items0.                                                  *)

Done(op) == call.phase = "done" /\ call.op = op

\* how many times the call reached the collaborator step e
Count(e) == Cardinality({i \in 1..Len(call.effects) : call.effects[i] = e})

\* the rows the completed call added to the items table
NewRows == SubSeq(items, call.items0 + 1, Len(items))

\* the tables as the completed call found them
Before ==
  [items |-> SubSeq(items, 1, call.items0), fts |-> SubSeq(items_fts, 1, call.items0),
   overview |-> call.overview0, md |-> call.md0, effects |-> <<>>, logged |-> <<>>]

\* the call reached analyze, and analyze raised or its text is no well-formed analysis
AnalysisFailed ==
  \/ Count("analyze:raised") = 1
  \/ Count("analyze") = 1 /\ from_llm_json(call.llm.text).exc # ""

\* the call reached analyze, and analyze returned a well-formed analysis
AnalysisWellFormed == Count("analyze") = 1 /\ from_llm_json(call.llm.text).exc = ""

\* the JSON object a well-formed reply carries, with every field the model sent
ReplyObject ==
  LET k == CHOOSE i \in 1..Len(call.llm.text) : call.llm.text[i].k = "json"
  IN call.llm.text[k].v.o

\* C1: when analyze raises or returns text that is no well-formed analysis,
\* and the database can be written, capture returns "Saved to knowledge
\* base." with flag False and adds exactly one row: a note with no tags, no
\* summary and the original text as content.
C1_FallbackSavesRawNote ==
  (Done("capture") /\ AnalysisFailed /\ call.storeUp) =>
    /\ call.exc = ""
    /\ call.reply = "Saved to knowledge base."
    /\ call.flag = FALSE
    /\ Len(NewRows) = 1
    /\ NewRows[1].item_type = "note"
    /\ NewRows[1].tags.v = <<>>
    /\ NewRows[1].summary = ""
    /\ NewRows[1].content = call.text

C1_Witness ==
  /\ Done("capture") /\ Count("analyze") = 1 /\ from_llm_json(call.llm.text).exc # ""
  /\ call.storeUp
  /\ call.text = "see HTTPS://a.io/x, (http://b.io)"
  /\ items[Len(items)].content = call.text
  /\ call.reply = "Saved to knowledge base."

\* C2: once analysis has failed, capture returns the fallback confirmation
\* and does not raise, even when the store's save fails.
C2_FallbackNeverRaises ==
  (Done("capture") /\ AnalysisFailed) =>
    call.exc = "" /\ call.reply = "Saved to knowledge base."

\* C3: when analyze returns a well-formed analysis (and the database can be
\* written), capture does not raise and returns the analysis's response
\* verbatim with a capability flag, never the fallback confirmation.
C3_WellFormedReturnsResponse ==
  (Done("capture") /\ AnalysisWellFormed /\ call.storeUp) =>
    /\ call.exc = ""
    /\ call.reply = ReplyObject["response"]
    /\ call.reply # "Saved to knowledge base."
    /\ call.flag \in BOOLEAN

\* the first URL of the two message texts, read off the URL pattern by hand
ExpectedSourceUrl ==
  IF call.text = "see HTTPS://a.io/x, (http://b.io)" THEN Some("HTTPS://a.io/x,") ELSE None

\* C4: when analyze returns a well-formed analysis (and the database can be
\* written), capture adds exactly one parent row: content is the original
\* text, item_type, tags and summary are the parsed values, source_url is the
\* first URL of the text (NULL without one) and url_content is the fetched
\* text; any further row it adds is an extracted reference.
C4_ParentItemFromOriginalText ==
  (Done("capture") /\ AnalysisWellFormed /\ call.storeUp) =>
    /\ Len(NewRows) >= 1
    /\ NewRows[1].content = call.text
    /\ NewRows[1].item_type = ReplyObject["item_type"]
    /\ NewRows[1].tags.v = ReplyObject["tags"]
    /\ NewRows[1].summary = ReplyObject["summary"]
    /\ NewRows[1].source_url = ExpectedSourceUrl
    /\ NewRows[1].url_content = (IF ExpectedSourceUrl # None THEN call.fetched ELSE None)
    /\ \A i \in 2..Len(NewRows) :
         NewRows[i].item_type = "reference" /\ NewRows[i].content # call.text

C4_Witness ==
  /\ Done("capture") /\ AnalysisWellFormed /\ call.storeUp
  /\ call.fetched = Some("Grant page")
  /\ NewRows[1].content = "see HTTPS://a.io/x, (http://b.io)"
  /\ NewRows[1].source_url = Some("HTTPS://a.io/x,")
  /\ NewRows[1].url_content = Some("Grant page")
  /\ NewRows[1].item_type = "link"
  /\ NewRows[1].summary = "Funding calendar"

\* the entries of the reply's extracted_items that have a non-empty summary
ExtractedWithSummary ==
  LET xs == Get(ReplyObject, "extracted_items", <<>>)
  IN SelectSeq(xs, LAMBDA x : Get(x, "summary", "") # "")

\* C5: a capture whose analysis has k extracted entries with non-empty
\* summaries makes exactly 1+k store saves (exactly one when there are no
\* extracted items): the parent, then one reference row per such entry, each
\* with the parent's source_url.
C5_ExtractedItemsSaved ==
  (Done("capture") /\ AnalysisWellFormed /\ call.storeUp) =>
    /\ Count("save_item") = 1 + Len(ExtractedWithSummary)
    /\ Len(NewRows) = 1 + Len(ExtractedWithSummary)
    /\ \A i \in 1..Len(ExtractedWithSummary) :
         /\ NewRows[1 + i].item_type = "reference"
         /\ NewRows[1 + i].summary = ExtractedWithSummary[i]["summary"]
         /\ NewRows[1 + i].source_url = NewRows[1].source_url

\* C6: after a capture, the stored overview is the analysis's overview_update
\* verbatim whenever that field is non-null, and is unchanged, with no
\* overview write, when it is null or absent or the fallback path was taken.
C6_OverviewUpdateVerbatim ==
  (Done("capture") /\ call.storeUp /\ (AnalysisFailed \/ AnalysisWellFormed)) =>
    IF AnalysisWellFormed /\ Get(ReplyObject, "overview_update", None) # None
    THEN overview = Some(ReplyObject["overview_update"][1])
    ELSE overview = call.overview0 /\ Count("save_overview") = 0

\* the listing the failure branch of query shows for search results res
ExpectedListing(res) ==
  Join([i \in 1..Min(5, Len(res)) |->
          "[" \o res[i].item.item_type \o "] "
            \o (IF res[i].item.summary # "" THEN res[i].item.summary
                ELSE SubSeq(res[i].item.content, 1, Min(80, Len(res[i].item.content))))],
       "\n\n")

\* C7: when analyze fails during query, query does not raise, makes no
\* second model call and writes nothing; it returns the listing of the type
\* and summary (the start of the content for an item without summary) of the
\* first results, at most 5, when the search found any, and the fixed apology
\* when it found none.
C7_QueryFallback ==
  (Done("query") /\ Count("analyze:raised") = 1) =>
    /\ call.exc = ""
    /\ Count("analyze") = 0
    /\ Len(NewRows) = 0 /\ overview = call.overview0
    /\ LET res == search(Before, call.text, 10)
       IN IF res # <<>> THEN call.reply = ExpectedListing(res)
          ELSE call.reply = "I couldn't process that query right now."

C7_Witness ==
  /\ Done("query") /\ Count("analyze:raised") = 1
  /\ Len(search(Before, call.text, 10)) > 5
  /\ call.reply =
       "[note] Arts grant deadline\n\n[idea] Track each grant\n\n[task] Grant report due\n\n"
         \o "[note] apply for the travel grant\n\n"
         \o "[note] grant notes: the panel wants a budget, a timeline, two referees and a short vide"

\* what an operation would have returned and written with a working log
WithWorkingLog ==
  IF call.op = "capture"
  THEN capture(pm[1], call.text, call.fetched, call.llm, TRUE, call.storeUp, Before)
  ELSE IF call.op = "query"
  THEN query(pm[1], call.text, call.llm, TRUE, Before)
  ELSE refresh_overview(pm[1], call.llm, TRUE, call.storeUp, Before)

\* C8: when the conversation log's log operation fails during capture, query
\* or refresh_overview, the operation raises or returns exactly what it would
\* with a working log, and leaves the same rows and the same overview.
C8_LogFailureChangesNothing ==
  (/\ call.phase = "done" /\ call.op \in {"capture", "query", "refresh_overview"}
   /\ conversation_log /\ ~call.logUp) =>
    /\ call.exc = WithWorkingLog.exc
    /\ call.reply = WithWorkingLog.reply
    /\ call.flag = WithWorkingLog.flag
    /\ items = WithWorkingLog.w.items
    /\ overview = WithWorkingLog.w.overview

C8_Witness ==
  /\ Done("refresh_overview") /\ Count("log:raised") = 1
  /\ call.reply = "Overview refreshed."
  /\ overview = Some("## Grants")

\* the answer contains one of the fixed phrases, compared case-insensitively
AnswerSignalsGap ==
  LET folded == lower(call.answer)
  IN \E i \in 1..Len(_INSUFFICIENT_CAPABILITY_SIGNALS) :
       \E j \in 1..Len(folded) :
         SubSeq(folded, j, Min(Len(folded), j + Len(_INSUFFICIENT_CAPABILITY_SIGNALS[i]) - 1))
           = _INSUFFICIENT_CAPABILITY_SIGNALS[i]

\* C9: with a prompt manager configured (and its capability_gap template in
\* place), check_capability_gap calls the model exactly when the answer
\* contains one of the fixed phrases, case-insensitively; for an answer with
\* none it returns None without a model call.
C9_GapCallIffSignal ==
  (Done("check_capability_gap") /\ pm = Some(FullPM)) =>
    /\ (Count("analyze") + Count("analyze:raised") = 1) <=> AnswerSignalsGap
    /\ Count("analyze") + Count("analyze:raised") <= 1
    /\ ~AnswerSignalsGap => (call.exc = "" /\ call.gap = None)

C9_Witness ==
  /\ Done("check_capability_gap") /\ pm = Some(FullPM)
  /\ call.answer = "There is No Record of it."
  /\ Count("analyze") = 1

\* C10: check_capability_gap does not raise and returns None when the gap
\* model call fails or its response is not a JSON object that says
\* can_answer is false; it returns a proposal only when can_answer is false.
C10_GapOnlyWhenCannotAnswer ==
  (Done("check_capability_gap") /\ Count("analyze") + Count("analyze:raised") = 1) =>
    /\ call.exc = ""
    /\ call.gap # None =>
         /\ Count("analyze") = 1
         /\ Len(call.llm.text) = 1 /\ call.llm.text[1].k = "json"
         /\ call.llm.text[1].v.t = "object"
         /\ "can_answer" \in DOMAIN call.llm.text[1].v.o
         /\ call.llm.text[1].v.o["can_answer"] = "false"

\* the answer /ask got from the model contains one of the fixed phrases
AskAnswerSignalsGap ==
  LET folded == lower(call.llm.text)
  IN \E i \in 1..Len(_INSUFFICIENT_CAPABILITY_SIGNALS) :
       \E j \in 1..Len(folded) :
         SubSeq(folded, j, Min(Len(folded), j + Len(_INSUFFICIENT_CAPABILITY_SIGNALS[i]) - 1))
           = _INSUFFICIENT_CAPABILITY_SIGNALS[i]

\* the gap analysis of the completed /ask answered with a JSON object that
\* says can_answer is false
AskGotProposal ==
  /\ ~call.gapLlm.raises
  /\ call.gapLlm.text[1].k = "json"
  /\ call.gapLlm.text[1].v.t = "object"
  /\ Get(call.gapLlm.text[1].v.o, "can_answer", "true") = "false"

\* a pending proposal g names a prompt and carries a replacement text
ProposalComplete(g) ==
  /\ "prompt_name" \in DOMAIN g /\ g["prompt_name"] # None /\ g["prompt_name"][1] # ""
  /\ "prompt_update" \in DOMAIN g /\ g["prompt_update"] # None /\ g["prompt_update"][1] # ""

\* C11: /ask never calls PromptManager.update and leaves the prompt files and
\* the repository alone; a gap it detects becomes the session's pending
\* proposal.  /confirm_feature on a pending proposal that names a prompt and
\* a text calls update exactly once with that name and text; it always
\* clears the pending proposal, and with none pending it calls nothing and
\* says so.
C11_ProposalHeldUntilConfirm ==
  /\ Done("ask") =>
       /\ call.updates = <<>> /\ call.steps = <<>>
       /\ pm = call.pm0 /\ repo = call.repo0
       /\ (call.text # "" /\ AskAnswerSignalsGap /\ AskGotProposal) =>
            user_data = Some(call.gapLlm.text[1].v.o)
       /\ ~(call.text # "" /\ AskAnswerSignalsGap /\ AskGotProposal) =>
            user_data = call.user_data0
  /\ Done("confirm_feature") =>
       /\ user_data = None
       /\ call.user_data0 = None =>
            /\ call.updates = <<>> /\ call.steps = <<>>
            /\ pm = call.pm0 /\ repo = call.repo0
            /\ call.reply = NO_PENDING_REPLY
       /\ (call.user_data0 # None /\ ProposalComplete(call.user_data0[1])) =>
            call.updates = << [name |-> call.user_data0[1]["prompt_name"][1],
                               text |-> call.user_data0[1]["prompt_update"][1]] >>

\* a second /confirm_feature after one that applied a proposal to "capture"
C11_Witness ==
  /\ Done("confirm_feature")
  /\ call.user_data0 = None
  /\ call.pm0[1].user_dir # None
  /\ "capture" \in DOMAIN call.pm0[1].user_dir[1]
  /\ call.reply = NO_PENDING_REPLY

\* C12: /confirm_feature on a pending proposal that lacks the prompt name or
\* the replacement text never calls PromptManager.update, leaves every
\* template and the repository as they were, and replies with the
\* explanation.
C12_IncompleteProposalRejected ==
  (Done("confirm_feature") /\ call.user_data0 # None /\ ~ProposalComplete(call.user_data0[1])) =>
    /\ call.updates = <<>> /\ call.steps = <<>>
    /\ pm = call.pm0 /\ repo = call.repo0
    /\ call.exc = ""
    /\ call.reply = NOT_ENOUGH_DETAIL_REPLY

\* a confirm of a proposal that has neither a prompt name nor a text
C12_Witness ==
  /\ Done("confirm_feature")
  /\ call.user_data0 # None
  /\ "prompt_name" \notin DOMAIN call.user_data0[1]
  /\ "prompt_update" \notin DOMAIN call.user_data0[1]
  /\ call.reply = NOT_ENOUGH_DETAIL_REPLY

\* the update reached git and raised at git add or at git commit
UpdateFailedAtStagingOrCommit ==
  /\ Done("update") /\ call.exc # ""
  /\ call.steps # <<>> /\ call.steps[Len(call.steps)] \in {"add", "commit"}

\* C13: after an update that failed at staging or at commit, a load of the
\* same name renders what it rendered before the update.
C13_FailedUpdateLeavesPrompt ==
  UpdateFailedAtStagingOrCommit =>
    \A kwargs \in LoadKwargs : load(pm[1], call.text, kwargs) = load(call.pm0[1], call.text, kwargs)

GitSteps == <<"write", "add", "commit", "rev-parse", "push">>

\* C14: with a user tier, update writes, stages, commits, reads the commit
\* identifier and pushes, in that order; a failed git add or git commit
\* raises and is the last step taken; a failed push does not raise and the
\* identifier of the new commit is still returned.
C14_UpdateStepsInOrder ==
  (Done("update") /\ call.pm0[1].user_dir # None) =>
    /\ call.steps = SubSeq(GitSteps, 1, Len(call.steps))
    /\ ~call.git.add => (call.exc = "RuntimeError" /\ call.steps = SubSeq(GitSteps, 1, 2))
    /\ (call.git.add /\ ~call.git.commit) =>
         (call.exc = "RuntimeError" /\ call.steps = SubSeq(GitSteps, 1, 3))
    /\ call.exc # "" => (Len(call.steps) \in {2, 3} /\ repo.commits = call.repo0.commits)
    /\ call.exc = "" =>
         /\ call.steps = GitSteps
         /\ repo.commits = call.repo0.commits + 1
         /\ call.reply = short_hash(repo.commits)
         /\ repo.head[call.text] = TemplateParts(call.answer)
         /\ repo.remote = IF call.git.push THEN repo.commits ELSE call.repo0.remote
    /\ Len(call.steps) = 5 => call.exc = ""

\* an update whose push failed: the first commit is made and returned, and
\* the remote does not have it
C14_Witness ==
  /\ Done("update") /\ call.pm0[1].user_dir # None
  /\ ~call.git.push
  /\ call.exc = "" /\ call.reply = "c1"
  /\ repo.commits = 1 /\ repo.remote = 0

\* the template of a name in a tier that holds it, rendered
Rendered(dir, name, kwargs) == safe_substitute(dir[name], kwargs)

\* C15: load renders the user tier's template when the user tier has one of
\* that name, the base tier's only when the user tier has none, and raises
\* FileNotFoundError when neither tier has it.
C15_LoadPrefersUserTier ==
  Done("load") =>
    LET m == pm[1]
        inUser == m.user_dir # None /\ call.text \in DOMAIN m.user_dir[1]
        inBase == call.text \in DOMAIN m.base_dir
    IN /\ inUser => (call.exc = "" /\ call.reply = Rendered(m.user_dir[1], call.text, call.kwargs))
       /\ (~inUser /\ inBase) =>
            (call.exc = "" /\ call.reply = Rendered(m.base_dir, call.text, call.kwargs))
       /\ (~inUser /\ ~inBase) => call.exc = "FileNotFoundError"

\* a load of "query" while both tiers hold it, after an update wrote the user
\* tier's
C15_Witness ==
  /\ Done("load") /\ call.text = "query"
  /\ pm[1].user_dir # None /\ "query" \in DOMAIN pm[1].user_dir[1]
  /\ repo.commits = 1 /\ repo.head # <<>>
  /\ call.kwargs # <<>>
  /\ call.reply = "Answer briefly."

\* neither tier of the prompt manager holds the template `name`
MissingFromBothTiers(name) ==
  /\ name \notin DOMAIN pm[1].base_dir
  /\ pm[1].user_dir = None \/ name \notin DOMAIN pm[1].user_dir[1]

StoreDb == [items |-> items, fts |-> items_fts]

\* the terms of a text: its words, case-folded
TermsOf(text) == Range(Tokens(text))

\* the terms a row contains in content, summary or tags
RowTerms(row) ==
  TermsOf(row.content) \cup TermsOf(row.summary)
    \cup UNION {TermsOf(row.tags.v[i]) : i \in 1..Len(row.tags.v)}

\* the ids of the items a search returned
ResultIds(results) == {results[i].item.item_id[1] : i \in 1..Len(results)}

\* the query is made of ASCII letters, digits and blanks only
PlainQuery(q) == \A i \in 1..Len(q) : Char(q, i) \in Alnum \cup Whitespace

\* C17: a search whose limit does not cut the result returns exactly the
\* items that contain at least one of the query's terms.
C17_SearchMatchesAnyTerm ==
  (Done("search") /\ PlainQuery(call.arg.query) /\ call.arg.limit >= Len(items)) =>
    \A i \in 1..Len(items) :
      (RowTerms(items[i]) \cap TermsOf(call.arg.query) # {})
        <=> items[i].id \in ResultIds(call.result)

\* C18: a search for a query that ends with a question mark returns every
\* item the same search returns for the query without it.
C18_PunctuationKeepsMatches ==
  (Done("search") /\ Char(call.arg.query, Len(call.arg.query)) = "?") =>
    ResultIds(search(StoreDb, SubSeq(call.arg.query, 1, Len(call.arg.query) - 1),
                     call.arg.limit))
      \subseteq ResultIds(call.result)

\* C19: the index holds one row per items row, under the same id; right
\* after save_item returns, a search for any term of the saved item's
\* content, summary or tags returns the item; every search result is a row
\* of the items table.
C19_IndexAgreesWithItems ==
  /\ (call.phase = "done" /\ call.op \in {"save_item", "search", "get_item", "count"}) =>
       /\ Len(items_fts) = Len(items)
       /\ \A i \in 1..Len(items) : items_fts[i].rowid = items[i].id
  /\ Done("save_item") =>
       \A t \in RowTerms(items[Len(items)]) :
         call.result \in ResultIds(search(StoreDb, t, count(items)))
  /\ Done("search") =>
       \A i \in 1..Len(call.result) :
         get_item(items, call.result[i].item.item_id[1]) = Some(call.result[i].item)

\* C20: save_item returns an id greater than every id in the table, the item
\* read back under that id has every field as saved, the rows saved before
\* read back as before, and count() grows by one; no other store call
\* changes the table.
C20_SaveAssignsFreshId ==
  /\ Done("save_item") =>
       /\ \A i \in 1..Len(call.rows0) : call.result > call.rows0[i].id
       /\ get_item(items, call.result) = Some([call.arg EXCEPT !.item_id = Some(call.result)])
       /\ \A i \in 1..Len(call.rows0) :
            get_item(items, call.rows0[i].id) = get_item(call.rows0, call.rows0[i].id)
       /\ count(items) = count(call.rows0) + 1
  /\ (call.phase = "done" /\ call.op \in {"search", "get_item", "count"}) => items = call.rows0
  /\ Done("count") => call.result = Len(items)
  /\ Done("get_item") =>
       (call.result # None <=> \E i \in 1..Len(items) : items[i].id = call.arg)

\* the third save of a run: an item with tags, a source URL and fetched text
C20_Witness ==
  /\ Done("save_item") /\ call.result = 3 /\ count(items) = 3
  /\ call.arg.tags = <<"π", "maths">>
  /\ call.arg.source_url = Some("http://pi.io")
  /\ get_item(items, 3)[1].tags = <<"π", "maths">>

\* C21: get_overview returns "" before any save_overview; after a
\* save_overview it returns exactly the text of that call, whatever was saved
\* before; and a read leaves the row alone, so the text of the last save is
\* what every later read returns.
C21_LastOverviewWins ==
  /\ get_overview(overview) = ""
  /\ [][/\ call'.op = "save_overview" => get_overview(overview') = call'.arg.text
        /\ call'.op = "get_overview" =>
             overview' = overview /\ call'.result = get_overview(overview)]_vars

C21_Witness ==
  /\ call.op = "get_overview" /\ call.result = "v2"
  /\ overview_md.file = Some(OverviewMarkdown("v1", 1))

\* C24: when the mirror file cannot be written, save_overview does not raise
\* and the new text is the one get_overview returns.
C24_MirrorFailureKeepsSave ==
  (call.op = "save_overview" /\ overview_md.path /\ ~call.arg.mdUp) =>
    call.result = "" /\ get_overview(overview) = call.arg.text

C24_Witness ==
  /\ call.op = "save_overview" /\ ~call.arg.mdUp /\ call.result = ""
  /\ overview = Some("v2")
  /\ overview_md = [path |-> TRUE, file |-> Some(OverviewMarkdown("v1", 1))]

\* item a is listed before item b: a is newer, or they have one created_at
\* and a was inserted first
ListedBefore(a, b) ==
  \/ a.created_at > b.created_at
  \/ a.created_at = b.created_at /\ a.item_id[1] < b.item_id[1]

C23_FetchFailureKeepsCapture ==
  (/\ Done("capture") /\ extract_urls(call.text) # <<>> /\ call.fetched = None
   /\ ~MissingFromBothTiers("capture") /\ call.storeUp) =>
    /\ call.exc = ""
    /\ \A i \in 1..Len(call.logged) : call.logged[i].user_message = call.text
    /\ Len(NewRows) >= 1
    /\ NewRows[1].content = call.text
    /\ NewRows[1].source_url = Some(extract_urls(call.text)[1])
    /\ NewRows[1].url_content = None

\* C25: refresh_overview (its template exists) calls the model exactly once
\* and does not raise.  When the call returns and the database can be
\* written, the stored overview is the model's output and the reply is
\* "Overview refreshed.".  When the call fails, there is no overview write,
\* the stored overview is as before and the reply is the failure text.
C25_RefreshOverviewOutcome ==
  (Done("refresh_overview") /\ ~MissingFromBothTiers("overview_refresh")) =>
    /\ Count("analyze") + Count("analyze:raised") = 1
    /\ call.exc = ""
    /\ (Count("analyze") = 1 /\ call.storeUp) =>
         /\ overview = Some(call.llm.text)
         /\ call.reply = "Overview refreshed."
    /\ Count("analyze:raised") = 1 =>
         /\ Count("save_overview") = 0 /\ Count("save_overview:raised") = 0
         /\ overview = call.overview0
         /\ call.reply = "Couldn't refresh the overview right now."

\* a refresh whose model call failed, after an earlier refresh stored a text
C25_Witness ==
  /\ Done("refresh_overview") /\ Count("analyze:raised") = 1
  /\ call.overview0 = Some("## Grants") /\ overview = Some("## Grants")
  /\ call.reply = "Couldn't refresh the overview right now."

\* the place where tag x is first seen in the list xs
FirstSeen(xs, x) == CHOOSE i \in 1..Len(xs) : xs[i] = x /\ \A j \in 1..(i - 1) : xs[j] # x

\* t lists every tag of xs exactly once, in the order xs first shows them
OnceInFirstSeenOrder(t, xs) ==
  /\ Range(t) = Range(xs)
  /\ \A a, b \in 1..Len(t) : a < b => FirstSeen(xs, t[a]) < FirstSeen(xs, t[b])

\* C26: a capture persists, for each extracted entry with a summary, a
\* sub-item whose tags are the parent's tags followed by the entry's own,
\* each tag once, in first-seen order.
C26_SubItemTagsMerged ==
  (Done("capture") /\ AnalysisWellFormed /\ call.storeUp) =>
    /\ Len(NewRows) = 1 + Len(ExtractedWithSummary)
    /\ \A i \in 1..Len(ExtractedWithSummary) :
         OnceInFirstSeenOrder(NewRows[1 + i].tags.v,
                              ReplyObject["tags"]
                                \o Get(ExtractedWithSummary[i], "tags", <<>>))

\* C27: stored items are append-only: no step of any operation removes a
\* row or changes a field of one, so count() never decreases and get_item of
\* an assigned id keeps returning the same item.
C27_ItemsAppendOnly ==
  [][/\ count(items') >= count(items)
     /\ \A i \in 1..Len(items) : items'[i] = items[i]
     /\ \A i \in 1..Len(items) :
          get_item(items', items[i].id) = get_item(items, items[i].id)]_vars

\* a capture has added a row to a table that already held rows
C27_Witness ==
  /\ Done("capture")
  /\ call.items0 > 0
  /\ count(items) > call.items0
  /\ get_item(items, items[1].id) = get_item(SeedDb.items, items[1].id)

\* the effects of the call from the return of analyze on
AfterAnalyze ==
  LET at == CHOOSE i \in 1..Len(call.effects) : call.effects[i] = "analyze"
  IN SubSeq(call.effects, at + 1, Len(call.effects))

AskDetectsGap == call.op = "ask" /\ call.text # "" /\ AskAnswerSignalsGap /\ AskGotProposal

\* C29: the pending proposal changes in two ways only: an /ask that detects
\* a gap replaces it with that gap's proposal, and /confirm_feature clears
\* it.  An /ask that detects no gap leaves an earlier proposal pending, and
\* /confirm_feature applies the proposal that was pending when it arrived,
\* which is therefore that of the most recent gap-detecting /ask.
C29_PendingSurvivesGapFreeAsk ==
  [][/\ call'.phase = "pending" => user_data' = user_data
     /\ (call.phase = "pending" /\ call.op = "ask") =>
          user_data' = IF AskDetectsGap THEN Some(call.gapLlm.text[1].v.o) ELSE user_data
     /\ (call'.phase = "done" /\ call'.op = "confirm_feature") =>
          /\ user_data' = None
          /\ (user_data # None /\ ProposalComplete(user_data[1])) =>
               call'.updates = << [name |-> user_data[1]["prompt_name"][1],
                                   text |-> user_data[1]["prompt_update"][1]] >>
          /\ user_data = None => call'.updates = <<>>
     /\ user_data' # user_data =>
          \/ call.phase = "pending" /\ AskDetectsGap
          \/ call'.op = "confirm_feature"]_vars

\* an /ask that detected no gap has run while a complete proposal of an
\* earlier /ask was pending, and the proposal is still pending
C29_Witness ==
  /\ Done("ask") /\ call.text # ""
  /\ ~AskDetectsGap
  /\ call.user_data0 # None /\ ProposalComplete(call.user_data0[1])
  /\ user_data = call.user_data0

\* capture t got a well-formed analysis from the model
TaskWellFormed(t) ==
  /\ tasks[t].pc = "done" /\ tasks[t].system # ""
  /\ ~tasks[t].llm.raises /\ from_llm_json(tasks[t].llm.text).exc = ""

\* the overview_update of the analysis capture t got, None when null or absent
TaskOverviewUpdate(t) ==
  LET text == tasks[t].llm.text
      k == CHOOSE i \in 1..Len(text) : text[i].k = "json"
  IN Get(text[k].v.o, "overview_update", None)

\* both captures have got past the prompt and completed, in whatever interleaving
BothCompleted == \A t \in TaskIds : tasks[t].pc = "done" /\ tasks[t].system # ""

\* each capture has stored its parent item once, and under ids of their own
ParentsStoredOnce ==
  /\ \A t \in TaskIds :
       /\ tasks[t].rows # <<>>
       /\ get_item(items, tasks[t].rows[1])[1].content = tasks[t].text
       /\ Cardinality({i \in 1..Len(items) :
                         items[i].id \in Range(tasks[t].rows)
                           /\ items[i].content = tasks[t].text}) = 1
  /\ \A t, u \in TaskIds : t # u => Range(tasks[t].rows) \cap Range(tasks[u].rows) = {}

\* C30: when two captures interleave at their suspension points and both get
\* a well-formed analysis, each has stored its own parent item once under
\* distinct ids, and the stored overview is the overview_update of the
\* capture that wrote last: that of the capture that completed last among
\* those whose analysis carries one.
C30_ConcurrentCapturesLastWriterWins ==
  (BothCompleted /\ \A t \in TaskIds : TaskWellFormed(t)) =>
    /\ ParentsStoredOnce
    /\ \A t \in TaskIds :
         (/\ TruthyOpt(TaskOverviewUpdate(t))
          /\ \A u \in TaskIds :
               (u # t /\ TruthyOpt(TaskOverviewUpdate(u))) => tasks[u].order < tasks[t].order)
           => overview = Some(TaskOverviewUpdate(t)[1])

====
